---- MODULE Spec2Model ----
(***************************************************************************)
(* Literature Manager (app.py): the flat-file stores (bookmarks, bookmark  *)
(* metadata, AI summary cache, AI recommendation cache), the search of the *)
(* Search tab and load_literature, as state machines.                      *)
(*                                                                         *)
(* Text that the program parses or matches (titles, queries, tag input,    *)
(* colour codes) is a sequence of one-character strings; text it only      *)
(* stores or returns (comments, summaries, error causes) is a string.      *)
(* A JSON object (Python dict) is a function whose DOMAIN is its key set.  *)
(***************************************************************************)
EXTENDS Integers, Sequences, FiniteSets, TLC

VARIABLES
    literature,             \* app.py:367  literature = load_literature()
    bookmarks_json,         \* BOOKMARKS_FILE "bookmarks.json"
    metadata_json,          \* METADATA_FILE "bookmarks_metadata.json"
    summaries_json,         \* SUMMARIES_CACHE_FILE "ai_summaries_cache.json"
    recommendations_json,   \* "ai_recommendations_cache.json"
    OPENAI_API_KEY,         \* app.py:24-30, truthiness of the credential
    last,                   \* the last completed call: name, argument, result
    source,                 \* DATA_FILE "example-bib.json" (load_literature)
    search_query,           \* text of the search box
    results,                \* result list of the Search tab
    recommender_reply,      \* app.py:268, response.choices[0].message.content
    sessions                \* per browser session: the function it is in,
                            \* the line it is at and its local variables

vars == <<literature, bookmarks_json, metadata_json, summaries_json,
          recommendations_json, OPENAI_API_KEY, last, source, search_query,
          results, recommender_reply, sessions>>

----------------------------------------------------------------------------
(* Bounds of the model *)

MaxId == 2
MaxInitBookmarks == 2
MaxQueryLen == 3
MaxCorpusLen == 2
MaxSourceLen == 2

----------------------------------------------------------------------------
(* Python values *)

\* None, and a present value v, as an option: <<>> or <<v>>
None == <<>>

EmptyDict == [k \in {} |-> 0]

\* d.get(key) of a dict d: None when the key is absent
get(d, key) == IF key \in DOMAIN d THEN <<d[key]>> ELSE None

\* str(x) of an integer or of None
str(x) == IF x = None THEN "None" ELSE ToString(x[1])

\* faulty variant, for sensitivity of the property: the key is not deleted
del_nothing(d, key) == d

\* del d[key]
del(d, key) == [k \in DOMAIN d \ {key} |-> d[k]]

\* d[key] = value
setitem(d, key, value) ==
    [k \in DOMAIN d \cup {key} |-> IF k = key THEN value ELSE d[k]]

\* a file that does not exist, and a file holding one JSON dict
MissingFile == [exists |-> FALSE, data |-> EmptyDict]
DictFile(d) == [exists |-> TRUE, data |-> d]

----------------------------------------------------------------------------
(* Text helpers: str.strip, str.split(sep), str.join *)

\* the whitespace str.strip() removes
IsSpace(c) == c \in {" ", "\n", "\t"}

RECURSIVE lstrip(_)
lstrip(s) == IF s # <<>> /\ IsSpace(Head(s)) THEN lstrip(Tail(s)) ELSE s

RECURSIVE rstrip(_)
rstrip(s) ==
    IF s # <<>> /\ IsSpace(s[Len(s)]) THEN rstrip(SubSeq(s, 1, Len(s) - 1))
    ELSE s

strip(s) == rstrip(lstrip(s))

\* s.split(c) for a one-character separator c: the pieces between separators
RECURSIVE split_char(_, _, _)
split_char(s, c, piece) ==
    IF s = <<>> THEN <<piece>>
    ELSE IF Head(s) = c THEN <<piece>> \o split_char(Tail(s), c, <<>>)
    ELSE split_char(Tail(s), c, Append(piece, Head(s)))

\* sep.join(parts)
RECURSIVE join(_, _)
join(sep, parts) ==
    IF parts = <<>> THEN <<>>
    ELSE IF Len(parts) = 1 THEN parts[1]
    ELSE parts[1] \o sep \o join(sep, Tail(parts))

----------------------------------------------------------------------------
(* Papers and the inputs of the store operations *)

\* paper records (dicts): one per id in 1..MaxId, and a second record that
\* carries id 1 with another title
StorePapers ==
    {[id |-> i, title |-> <<"a">>] : i \in 1..MaxId}
        \cup {[id |-> 1, title |-> <<"b">>]}

\* values of paper.get('id') for these papers
PaperIds == {<<i>> : i \in 1..MaxId}

\* the corpus the store specifications run with
StoreCorpus == <<[id |-> 1, title |-> <<"a">>], [id |-> 2, title |-> <<"b">>]>>

\* the ten palette entries of the Bookmarks tab, in selectbox order
ColorLabels ==
    <<"Red", "Orange", "Yellow", "Green", "Blue",
      "Purple", "Brown", "Black", "White", "Gray">>

emoji_colors ==
    [Red    |-> <<"#", "F", "F", "0", "0", "0", "0">>,
     Orange |-> <<"#", "F", "F", "A", "5", "0", "0">>,
     Yellow |-> <<"#", "F", "F", "F", "F", "0", "0">>,
     Green  |-> <<"#", "0", "0", "F", "F", "0", "0">>,
     Blue   |-> <<"#", "0", "0", "0", "0", "F", "F">>,
     Purple |-> <<"#", "8", "0", "0", "0", "8", "0">>,
     Brown  |-> <<"#", "8", "B", "4", "5", "1", "3">>,
     Black  |-> <<"#", "0", "0", "0", "0", "0", "0">>,
     White  |-> <<"#", "F", "F", "F", "F", "F", "F">>,
     Gray   |-> <<"#", "8", "0", "8", "0", "8", "0">>]

\* what the user may do with one colour selectbox: leave it, or pick a label
ColorChoices == {"default", "Red"}

\* what the user may type in the tag box and in the comment box
TagInputs == {<<" ", "x", ",">>, <<"x", ",", "x">>}
CommentInputs == {"note"}

\* the metadata entry returned when none is stored (app.py:127)
DefaultMetadata == [tags |-> <<>>, comments |-> "", tag_colors |-> EmptyDict]

----------------------------------------------------------------------------
(* File access: app.py:70-96 *)

\* the JSON file bookmarks.json: missing, {"references": refs}, a bare list
\* refs, or any other JSON value
BookmarksFile(kind, refs) == [kind |-> kind, refs |-> refs]

\* faulty variant, for sensitivity of the property: the file gives the ids
\* and the records are those of the corpus
load_bookmarks_by_reference(file) ==
    IF file.kind \in {"object", "list"}
    THEN SelectSeq(literature,
                   LAMBDA paper : \E n \in 1..Len(file.refs) :
                                      file.refs[n].id = paper.id)
    ELSE <<>>

load_bookmarks(file) ==
    IF file.kind = "object" THEN file.refs
    ELSE IF file.kind = "list" THEN file.refs
    ELSE <<>>

save_bookmarks(bookmarks_list) == BookmarksFile("object", bookmarks_list)

load_metadata(file) == IF file.exists THEN file.data ELSE EmptyDict

save_metadata(metadata) == DictFile(metadata)

\* faulty variant, for sensitivity of the property: looks at the first bookmark only
any_id_first(bookmarks, paper_id) ==
    bookmarks # <<>> /\ get(bookmarks[1], "id") = paper_id

\* any(b.get('id') == paper_id for b in bookmarks)
any_id(bookmarks, paper_id) ==
    \E n \in 1..Len(bookmarks) : get(bookmarks[n], "id") = paper_id

is_bookmarked(paper_id) == any_id(load_bookmarks(bookmarks_json), paper_id)

get_bookmark_metadata(paper_id) ==
    LET metadata == load_metadata(metadata_json)
    IN  IF str(paper_id) \in DOMAIN metadata THEN metadata[str(paper_id)]
        ELSE DefaultMetadata

\* the record of a completed call: its name, argument and return value, what
\* became of client.chat.completions.create in it ("none": not invoked,
\* "returned", "raised"), and whether it loaded its cache file
Call(op, arg, ret, external, cache_read) ==
    [op |-> op, arg |-> arg, ret |-> ret, external |-> external,
     cache_read |-> cache_read]

\* the browser sessions: each runs the script in a thread of its own
Sessions == {1, 2}

\* a session that is in no function: done is the call it completed last
IdleSession(done) ==
    [pc |-> "idle", arg |-> None, bookmarks |-> <<>>, metadata |-> EmptyDict,
     entry |-> None, done |-> done]

NoSessions ==
    [s \in Sessions |->
        IdleSession([op |-> "start", arg |-> <<>>, ret |-> <<>>,
                     external |-> "none", cache_read |-> FALSE])]

----------------------------------------------------------------------------
(* Bookmark operations: app.py:98-117 *)

\* faulty variant, for sensitivity of the property: "already bookmarked" decided by the whole record, not by its id
add_bookmark_by_record(paper) ==
    LET bookmarks == load_bookmarks(bookmarks_json)
    IN  /\ IF ~(\E n \in 1..Len(bookmarks) : bookmarks[n] = paper)
           THEN /\ bookmarks_json' = save_bookmarks(Append(bookmarks, paper))
                /\ last' = Call("add_bookmark", paper, TRUE, "none", FALSE)
           ELSE /\ bookmarks_json' = bookmarks_json
                /\ last' = Call("add_bookmark", paper, FALSE, "none", FALSE)
        /\ UNCHANGED <<literature, metadata_json, summaries_json,
                       recommendations_json, OPENAI_API_KEY, source,
                       search_query, results, recommender_reply, sessions>>

\* faulty variant, for sensitivity of the property: the paper is put first
add_bookmark_first(paper) ==
    LET bookmarks == load_bookmarks(bookmarks_json)
    IN  /\ IF ~any_id(bookmarks, get(paper, "id"))
           THEN /\ bookmarks_json' = save_bookmarks(<<paper>> \o bookmarks)
                /\ last' = Call("add_bookmark", paper, TRUE, "none", FALSE)
           ELSE /\ bookmarks_json' = bookmarks_json
                /\ last' = Call("add_bookmark", paper, FALSE, "none", FALSE)
        /\ UNCHANGED <<literature, metadata_json, summaries_json,
                       recommendations_json, OPENAI_API_KEY, source,
                       search_query, results, recommender_reply, sessions>>

add_bookmark(paper) ==
    LET bookmarks == load_bookmarks(bookmarks_json)
    IN  /\ IF ~any_id(bookmarks, get(paper, "id"))
           THEN /\ bookmarks_json' = save_bookmarks(Append(bookmarks, paper))
                /\ last' = Call("add_bookmark", paper, TRUE, "none", FALSE)
           ELSE /\ bookmarks_json' = bookmarks_json
                /\ last' = Call("add_bookmark", paper, FALSE, "none", FALSE)
        /\ UNCHANGED <<literature, metadata_json, summaries_json,
                       recommendations_json, OPENAI_API_KEY, source,
                       search_query, results, recommender_reply, sessions>>

\* faulty variant, for sensitivity of the property: the cached summary of
\* the paper is dropped with the bookmark
remove_bookmark_forgetting(paper_id) ==
    LET bookmarks == load_bookmarks(bookmarks_json)
        kept == SelectSeq(bookmarks, LAMBDA b : get(b, "id") # paper_id)
        metadata == load_metadata(metadata_json)
        cache == IF summaries_json.exists THEN summaries_json.data
                 ELSE EmptyDict
    IN  /\ bookmarks_json' = save_bookmarks(kept)
        /\ IF str(paper_id) \in DOMAIN metadata
           THEN metadata_json' = save_metadata(del(metadata, str(paper_id)))
           ELSE metadata_json' = metadata_json
        /\ IF str(paper_id) \in DOMAIN cache
           THEN summaries_json' =
                    DictFile(del(cache, str(paper_id)))
           ELSE summaries_json' = summaries_json
        /\ last' = Call("remove_bookmark", paper_id, None, "none", FALSE)
        /\ UNCHANGED <<literature, recommendations_json,
                       OPENAI_API_KEY, source, search_query, results,
                       recommender_reply, sessions>>

remove_bookmark(paper_id) ==
    LET bookmarks == load_bookmarks(bookmarks_json)
        kept == SelectSeq(bookmarks, LAMBDA b : get(b, "id") # paper_id)
        metadata == load_metadata(metadata_json)
    IN  /\ bookmarks_json' = save_bookmarks(kept)
        /\ IF str(paper_id) \in DOMAIN metadata
           THEN metadata_json' = save_metadata(del(metadata, str(paper_id)))
           ELSE metadata_json' = metadata_json
        /\ last' = Call("remove_bookmark", paper_id, None, "none", FALSE)
        /\ UNCHANGED <<literature, summaries_json, recommendations_json,
                       OPENAI_API_KEY, source, search_query, results,
                       recommender_reply, sessions>>

----------------------------------------------------------------------------
(* Bookmarks tab, "Save Tags & Comments": app.py:567-573, 679-749 *)

\* selected_tags = [tag.strip() for tag in tags_input.split(',') if tag.strip()]
parse_tags(tags_input) ==
    LET pieces == split_char(tags_input, ",", <<>>)
        stripped == [n \in 1..Len(pieces) |-> strip(pieces[n])]
    IN  SelectSeq(stripped, LAMBDA tag : tag # <<>>)

\* app.py:713-718: the palette label whose code equals the stored code
current_label(tag_colors, tag) ==
    LET current_hex == IF tag \in DOMAIN tag_colors THEN tag_colors[tag]
                       ELSE emoji_colors["Blue"]
        hits == {n \in 1..Len(ColorLabels) :
                    emoji_colors[ColorLabels[n]] = current_hex}
    IN  IF hits = {} THEN "Blue"
        ELSE ColorLabels[CHOOSE n \in hits : \A m \in hits : n <= m]

\* app.py:707-727: the loop over selected_tags, writing into tag_colors
RECURSIVE pick_colors(_, _, _)
pick_colors(tag_colors, tags, choice) ==
    IF tags = <<>> THEN tag_colors
    ELSE LET tag == Head(tags)
             selected_color_label ==
                 IF choice[tag] = "default"
                 THEN current_label(tag_colors, tag) ELSE choice[tag]
         IN  pick_colors(
                 setitem(tag_colors, tag, emoji_colors[selected_color_label]),
                 Tail(tags), choice)

\* two selectboxes of one run with the same key f"color_{i}_{tag}": Streamlit
\* raises DuplicateWidgetID and the run ends before the Save button
DuplicateWidgetID(selected_tags) ==
    \E m, n \in 1..Len(selected_tags) :
        m # n /\ selected_tags[m] = selected_tags[n]

TagSet(tags) == {tags[n] : n \in 1..Len(tags)}

\* faulty variant, for sensitivity of the property: the form is drawn for the papers of the corpus, bookmarked or not
save_tags_and_comments_any_paper(i, tags_input, choice, new_comments) ==
    /\ i \in 1..Len(literature)
    /\ LET item == literature[i]
           stored == get_bookmark_metadata(get(item, "id"))
           selected_tags == parse_tags(tags_input)
           tag_colors == pick_colors(stored.tag_colors, selected_tags, choice)
           metadata == load_metadata(metadata_json)
           entry == [tags |-> selected_tags, comments |-> new_comments,
                     tag_colors |-> tag_colors]
       IN  /\ ~DuplicateWidgetID(selected_tags)
           /\ metadata_json' =
                  save_metadata(setitem(metadata, str(get(item, "id")), entry))
           /\ last' = Call("save_metadata", get(item, "id"), entry, "none",
                           FALSE)
    /\ UNCHANGED <<literature, bookmarks_json, summaries_json,
                   recommendations_json, OPENAI_API_KEY, source,
                   search_query, results, recommender_reply, sessions>>

\* faulty variant, for sensitivity of the property: the entry is merged
\* into the stored one, field by field
save_tags_and_comments_merging(i, tags_input, choice, new_comments) ==
    LET bookmarks == load_bookmarks(bookmarks_json)
    IN  /\ i \in 1..Len(bookmarks)
        /\ LET item == bookmarks[i]
               stored == get_bookmark_metadata(get(item, "id"))
               selected_tags == parse_tags(tags_input)
               tag_colors == pick_colors(stored.tag_colors, selected_tags,
                                         choice)
               metadata == load_metadata(metadata_json)
               entry == [tags |-> selected_tags, comments |-> new_comments,
                         tag_colors |-> tag_colors]
               merged == [f \in DOMAIN stored \cup DOMAIN entry |->
                             IF f \in DOMAIN entry THEN entry[f]
                             ELSE stored[f]]
           IN  /\ ~DuplicateWidgetID(selected_tags)
               /\ metadata_json' =
                      save_metadata(setitem(metadata, str(get(item, "id")),
                                            merged))
               /\ last' = Call("save_metadata", get(item, "id"), entry,
                               "none", FALSE)
        /\ UNCHANGED <<literature, bookmarks_json, summaries_json,
                       recommendations_json, OPENAI_API_KEY, source,
                       search_query, results, recommender_reply, sessions>>

save_tags_and_comments(i, tags_input, choice, new_comments) ==
    LET bookmarks == load_bookmarks(bookmarks_json)     \* app.py:368
    IN  /\ i \in 1..Len(bookmarks)
        /\ LET item == bookmarks[i]
               stored == get_bookmark_metadata(get(item, "id"))
               selected_tags == parse_tags(tags_input)
               tag_colors == pick_colors(stored.tag_colors, selected_tags,
                                         choice)
               metadata == load_metadata(metadata_json)
               entry == [tags |-> selected_tags, comments |-> new_comments,
                         tag_colors |-> tag_colors]
           IN  /\ ~DuplicateWidgetID(selected_tags)
               /\ metadata_json' =
                      save_metadata(setitem(metadata, str(get(item, "id")),
                                            entry))
               /\ last' = Call("save_metadata", get(item, "id"), entry,
                               "none", FALSE)
        /\ UNCHANGED <<literature, bookmarks_json, summaries_json,
                       recommendations_json, OPENAI_API_KEY, source,
                       search_query, results, recommender_reply, sessions>>

----------------------------------------------------------------------------
(* More text helpers for the recommendation parser *)

\* s.find(sub) counted from 1: the first position where sub occurs, else 0
find(s, sub) ==
    LET hits == {n \in 1..(Len(s) - Len(sub) + 1) :
                    SubSeq(s, n, n + Len(sub) - 1) = sub}
    IN  IF hits = {} THEN 0 ELSE CHOOSE n \in hits : \A m \in hits : n <= m

\* s.split(sep, 1): one piece, or the two pieces around the first sep
split_once(s, sep) ==
    LET n == find(s, sep)
    IN  IF n = 0 THEN <<s>>
        ELSE <<SubSeq(s, 1, n - 1), SubSeq(s, n + Len(sep), Len(s))>>

\* the first position after `from` that holds the character c, else 0
next_char(s, c, from) ==
    LET hits == {n \in (from + 1)..Len(s) : s[n] = c}
    IN  IF hits = {} THEN 0 ELSE CHOOSE n \in hits : \A m \in hits : n <= m

isdigit(c) == c \in {"0", "1", "2", "3", "4", "5", "6", "7", "8", "9"}

\* re.search(r'\[([^\]]+)\]\(([^)]+)\)', s): does a match start at p, and
\* its two groups.  The title runs to the first "]" after p, the URL to the
\* first ")" after the "(" that must follow that "]"; both are non-empty.
link_close(s, p) == next_char(s, "]", p)
link_end(s, p) == next_char(s, ")", link_close(s, p) + 1)
link_at(s, p) ==
    /\ s[p] = "["
    /\ link_close(s, p) > p + 1
    /\ link_close(s, p) + 1 <= Len(s)
    /\ s[link_close(s, p) + 1] = "("
    /\ link_end(s, p) > link_close(s, p) + 2

\* the start of the leftmost match, else 0
markdown_link_match(s) ==
    LET hits == {p \in 1..Len(s) : link_at(s, p)}
    IN  IF hits = {} THEN 0 ELSE CHOOSE p \in hits : \A q \in hits : p <= q

\* app.py:281-284: the line without its leading number and period
ordinal_stripped(line) ==
    LET stripped == strip(line)
    IN  IF stripped # <<>> /\ isdigit(stripped[1])
        THEN LET pieces == split_once(stripped, <<".", " ">>)
             IN  strip(pieces[Len(pieces)])
        ELSE stripped

\* app.py:281-311: the entries (none or one) that one non-blank line yields
parse_line(line) ==
    LET line_content == ordinal_stripped(line)
        p == markdown_link_match(line_content)
        parts == split_once(line_content, <<" ", "-", " ">>)
    IN  IF p # 0
        THEN LET title == SubSeq(line_content, p + 1,
                                 link_close(line_content, p) - 1)
                 url == SubSeq(line_content, link_close(line_content, p) + 2,
                               link_end(line_content, p) - 1)
                 reason == IF Len(parts) > 1 THEN strip(parts[2])
                           ELSE <<"R", "e", "l", "a", "t", "e", "d", " ",
                                  "p", "a", "p", "e", "r">>
             IN  <<(<<"*", "*", "[">> \o title \o <<"]", "(">> \o url
                      \o <<")", "*", "*", " ", "-", " ">> \o reason)>>
        ELSE IF Len(parts) = 2
        THEN <<(<<"*", "*">> \o strip(parts[1]) \o <<"*", "*", " ", "-", " ">>
                  \o strip(parts[2]))>>
        ELSE <<>>

\* app.py:271-311: recommendations_with_urls for the given lines
RECURSIVE parse_lines(_)
parse_lines(lines) ==
    IF lines = <<>> THEN <<>>
    ELSE IF strip(Head(lines)) = <<>> THEN parse_lines(Tail(lines))
    ELSE parse_line(Head(lines)) \o parse_lines(Tail(lines))

\* app.py:268-316: the output string for a response text
format_recommendations(recommendations_text) ==
    LET lines == split_char(strip(recommendations_text), "\n", <<>>)
        output == join(<<"\n">>, parse_lines(lines))
    IN  IF output = <<>> THEN recommendations_text ELSE output

----------------------------------------------------------------------------
(* AI summaries and recommendations: app.py:136-325 *)

\* what client.chat.completions.create may do: return a text or raise
SummarizerOutcomes ==
    {[ok |-> TRUE, content |-> "s1"], [ok |-> TRUE, content |-> "s2"],
     [ok |-> FALSE, cause |-> "timeout"]}

RecommenderOutcomes ==
    {[ok |-> TRUE, content |-> <<"1", ".", " ", "T", " ", "-", " ", "r">>],
     [ok |-> TRUE, content |-> <<"n", "o">>],
     [ok |-> FALSE, cause |-> <<"t", "i", "m", "e", "o", "u", "t">>]}

\* the advisory "<warning sign> API key not configured" (app.py:159, 229);
\* the sign is written (!) here
SummaryAdvisory == "(!) API key not configured"
RecommendationAdvisory ==
    <<"(", "!", ")", " ", "A", "P", "I", " ", "k", "e", "y", " ", "n", "o",
      "t", " ", "c", "o", "n", "f", "i", "g", "u", "r", "e", "d">>

\* f"Error generating summary: {str(e)}"
summary_error_msg(cause) == "Error generating summary: " \o cause

\* f"Error getting recommendations: {str(e)}"
recommendations_error_msg(cause) ==
    <<"E", "r", "r", "o", "r", " ", "g", "e", "t", "t", "i", "n", "g", " ",
      "r", "e", "c", "o", "m", "m", "e", "n", "d", "a", "t", "i", "o", "n",
      "s", ":", " ">> \o cause

load_summaries_cache(file) == IF file.exists THEN file.data ELSE EmptyDict
save_summaries_cache(cache) == DictFile(cache)
load_recommendations_cache(file) == IF file.exists THEN file.data ELSE EmptyDict
save_recommendations_cache(cache) == DictFile(cache)

\* faulty variant, for sensitivity of the property: no cache lookup: every call asks the summarizer and overwrites
get_ai_summary_uncached(paper_id, response) ==
    LET cache == load_summaries_cache(summaries_json)
        cache_key == str(paper_id)
    IN  /\ IF ~OPENAI_API_KEY
           THEN /\ summaries_json' = summaries_json
                /\ last' = Call("get_ai_summary", paper_id, SummaryAdvisory,
                                "none", FALSE)
           ELSE IF response.ok
           THEN /\ summaries_json' =
                      save_summaries_cache(
                          setitem(cache, cache_key, response.content))
                /\ last' = Call("get_ai_summary", paper_id, response.content,
                                "returned", TRUE)
           ELSE /\ summaries_json' = summaries_json
                /\ last' = Call("get_ai_summary", paper_id,
                                summary_error_msg(response.cause), "raised",
                                TRUE)
        /\ UNCHANGED <<literature, bookmarks_json, metadata_json,
                       recommendations_json, OPENAI_API_KEY, source,
                       search_query, results, recommender_reply, sessions>>

\* faulty variant, for sensitivity of the property: the cache is looked up before the credential is checked
get_ai_summary_cache_first(paper_id, response) ==
    LET cache == load_summaries_cache(summaries_json)
        cache_key == str(paper_id)
    IN  /\ IF cache_key \in DOMAIN cache
           THEN /\ summaries_json' = summaries_json
                /\ last' = Call("get_ai_summary", paper_id, cache[cache_key],
                                "none", TRUE)
           ELSE IF ~OPENAI_API_KEY
           THEN /\ summaries_json' = summaries_json
                /\ last' = Call("get_ai_summary", paper_id, SummaryAdvisory,
                                "none", TRUE)
           ELSE IF response.ok
           THEN /\ summaries_json' =
                      save_summaries_cache(
                          setitem(cache, cache_key, response.content))
                /\ last' = Call("get_ai_summary", paper_id, response.content,
                                "returned", TRUE)
           ELSE /\ summaries_json' = summaries_json
                /\ last' = Call("get_ai_summary", paper_id,
                                summary_error_msg(response.cause), "raised",
                                TRUE)
        /\ UNCHANGED <<literature, bookmarks_json, metadata_json,
                       recommendations_json, OPENAI_API_KEY, source,
                       search_query, results, recommender_reply, sessions>>

get_ai_summary(paper_id, response) ==
    LET cache == load_summaries_cache(summaries_json)
        cache_key == str(paper_id)
    IN  /\ IF ~OPENAI_API_KEY
           THEN /\ summaries_json' = summaries_json
                /\ last' = Call("get_ai_summary", paper_id, SummaryAdvisory,
                                "none", FALSE)
           ELSE IF cache_key \in DOMAIN cache
           THEN /\ summaries_json' = summaries_json
                /\ last' = Call("get_ai_summary", paper_id, cache[cache_key],
                                "none", TRUE)
           ELSE IF response.ok
           THEN /\ summaries_json' =
                      save_summaries_cache(
                          setitem(cache, cache_key, response.content))
                /\ last' = Call("get_ai_summary", paper_id, response.content,
                                "returned", TRUE)
           ELSE /\ summaries_json' = summaries_json
                /\ last' = Call("get_ai_summary", paper_id,
                                summary_error_msg(response.cause), "raised",
                                TRUE)
        /\ UNCHANGED <<literature, bookmarks_json, metadata_json,
                       recommendations_json, OPENAI_API_KEY, source,
                       search_query, results, recommender_reply, sessions>>

\* faulty variant, for sensitivity of the property: the error text of a failed call is stored like a result
get_similar_papers_caches_error(paper_id, response) ==
    LET cache == load_recommendations_cache(recommendations_json)
        cache_key == str(paper_id)
    IN  /\ IF ~OPENAI_API_KEY
           THEN /\ recommendations_json' = recommendations_json
                /\ last' = Call("get_similar_papers", paper_id,
                                RecommendationAdvisory, "none", FALSE)
           ELSE IF cache_key \in DOMAIN cache
           THEN /\ recommendations_json' = recommendations_json
                /\ last' = Call("get_similar_papers", paper_id,
                                cache[cache_key], "none", TRUE)
           ELSE LET output ==
                        IF response.ok
                        THEN format_recommendations(response.content)
                        ELSE recommendations_error_msg(response.cause)
                IN  /\ recommendations_json' =
                           save_recommendations_cache(
                               setitem(cache, cache_key, output))
                    /\ last' = Call("get_similar_papers", paper_id, output,
                                    IF response.ok THEN "returned"
                                    ELSE "raised", TRUE)
        /\ UNCHANGED <<literature, bookmarks_json, metadata_json,
                       summaries_json, OPENAI_API_KEY, source, search_query,
                       results, recommender_reply, sessions>>

\* faulty variant, for sensitivity of the property: the raw reply is not
\* used when no line parses
get_similar_papers_no_fallback(paper_id, response) ==
    LET cache == load_recommendations_cache(recommendations_json)
        cache_key == str(paper_id)
    IN  /\ IF ~OPENAI_API_KEY
           THEN /\ recommendations_json' = recommendations_json
                /\ last' = Call("get_similar_papers", paper_id,
                                RecommendationAdvisory, "none", FALSE)
           ELSE IF cache_key \in DOMAIN cache
           THEN /\ recommendations_json' = recommendations_json
                /\ last' = Call("get_similar_papers", paper_id,
                                cache[cache_key], "none", TRUE)
           ELSE IF response.ok
           THEN LET lines == split_char(strip(response.content), "\n", <<>>)
                    output == join(<<"\n">>, parse_lines(lines))
                IN  /\ recommendations_json' =
                           save_recommendations_cache(
                               setitem(cache, cache_key, output))
                    /\ last' = Call("get_similar_papers", paper_id, output,
                                    "returned", TRUE)
           ELSE /\ recommendations_json' = recommendations_json
                /\ last' = Call("get_similar_papers", paper_id,
                                recommendations_error_msg(response.cause),
                                "raised", TRUE)
        /\ UNCHANGED <<literature, bookmarks_json, metadata_json,
                       summaries_json, OPENAI_API_KEY, source, search_query,
                       results, recommender_reply, sessions>>

get_similar_papers(paper_id, response) ==
    LET cache == load_recommendations_cache(recommendations_json)
        cache_key == str(paper_id)
    IN  /\ IF ~OPENAI_API_KEY
           THEN /\ recommendations_json' = recommendations_json
                /\ last' = Call("get_similar_papers", paper_id,
                                RecommendationAdvisory, "none", FALSE)
           ELSE IF cache_key \in DOMAIN cache
           THEN /\ recommendations_json' = recommendations_json
                /\ last' = Call("get_similar_papers", paper_id,
                                cache[cache_key], "none", TRUE)
           ELSE IF response.ok
           THEN LET output == format_recommendations(response.content)
                IN  /\ recommendations_json' =
                           save_recommendations_cache(
                               setitem(cache, cache_key, output))
                    /\ last' = Call("get_similar_papers", paper_id, output,
                                    "returned", TRUE)
           ELSE /\ recommendations_json' = recommendations_json
                /\ last' = Call("get_similar_papers", paper_id,
                                recommendations_error_msg(response.cause),
                                "raised", TRUE)
        /\ UNCHANGED <<literature, bookmarks_json, metadata_json,
                       summaries_json, OPENAI_API_KEY, source, search_query,
                       results, recommender_reply, sessions>>

----------------------------------------------------------------------------
(* The session: one user interaction per step *)

NoCall == Call("start", None, None, "none", FALSE)

\* the variables of the Search tab and of load_literature, at rest
Idle ==
    /\ source = [kind |-> "missing", items |-> <<>>]
    /\ search_query = <<>>
    /\ results = None
    /\ recommender_reply = <<>>
    /\ sessions = NoSessions

\* the state of a fresh installation: no file exists yet
Init ==
    /\ literature = StoreCorpus
    /\ bookmarks_json = BookmarksFile("missing", <<>>)
    /\ metadata_json = MissingFile
    /\ summaries_json = MissingFile
    /\ recommendations_json = MissingFile
    /\ OPENAI_API_KEY \in BOOLEAN
    /\ last = NoCall
    /\ Idle

AddBookmark == \E paper \in StorePapers : add_bookmark(paper)

RemoveBookmark == \E paper_id \in PaperIds : remove_bookmark(paper_id)

\* i ranges over the positions a list of this session can have
SaveTagsAndComments ==
    \E i \in 1..(Len(load_bookmarks(bookmarks_json)) + Len(literature)) :
        \E tags_input \in TagInputs, new_comments \in CommentInputs :
            \E choice \in [TagSet(parse_tags(tags_input)) -> ColorChoices] :
                save_tags_and_comments(i, tags_input, choice, new_comments)

GetAiSummary ==
    \E paper_id \in PaperIds, response \in SummarizerOutcomes :
        get_ai_summary(paper_id, response)

GetSimilarPapers ==
    \E paper_id \in PaperIds, response \in RecommenderOutcomes :
        get_similar_papers(paper_id, response)

NextStore ==
    \/ AddBookmark
    \/ RemoveBookmark
    \/ SaveTagsAndComments

NextAI ==
    \/ GetAiSummary
    \/ GetSimilarPapers

Next ==
    \/ AddBookmark
    \/ RemoveBookmark
    \/ SaveTagsAndComments
    \/ GetAiSummary
    \/ GetSimilarPapers

Spec == Init /\ [][Next]_vars

----------------------------------------------------------------------------
(* Specifications of the bookmark and metadata stores alone *)

BoundedSeq(S, n) == UNION {[1..k -> S] : k \in 0..n}

\* the bookmark files a session may find: any shape, duplicates included
InitBookmarkFiles ==
    {BookmarksFile(kind, <<>>) : kind \in {"missing", "other"}}
        \cup {BookmarksFile(kind, refs) :
                 kind \in {"object", "list"},
                 refs \in BoundedSeq(StorePapers, MaxInitBookmarks)}

MetadataKeys == {str(paper_id) : paper_id \in PaperIds}

InitEntries ==
    {[tags |-> << <<"x">> >>, comments |-> "old",
      tag_colors |-> (<<"x">> :> emoji_colors["Green"])]}

InitMetadataFiles ==
    {MissingFile}
        \cup {DictFile(m) :
                 m \in UNION {[K -> InitEntries] : K \in SUBSET MetadataKeys}}

NoDuplicateIds(bookmarks) ==
    \A m, n \in 1..Len(bookmarks) :
        m # n => get(bookmarks[m], "id") # get(bookmarks[n], "id")

\* a session that finds arbitrary bookmark and metadata files
InitStore ==
    /\ literature = StoreCorpus
    /\ bookmarks_json \in InitBookmarkFiles
    /\ metadata_json \in InitMetadataFiles
    /\ summaries_json = MissingFile
    /\ recommendations_json = MissingFile
    /\ OPENAI_API_KEY = FALSE
    /\ last = NoCall
    /\ Idle

SpecStore == InitStore /\ [][NextStore]_vars

\* a session that finds a bookmark file without duplicate ids
InitClean == InitStore /\ NoDuplicateIds(load_bookmarks(bookmarks_json))

SpecClean == InitClean /\ [][NextStore]_vars

\* a session on a fresh installation that only bookmarks and tags
InitFresh == Init /\ OPENAI_API_KEY = FALSE

SpecFresh == InitFresh /\ [][NextStore]_vars

----------------------------------------------------------------------------
(* Claims about the bookmark and metadata stores *)

\* the number of stored bookmarks that carry the id
Count(bookmarks, paper_id) ==
    Cardinality({n \in 1..Len(bookmarks) : get(bookmarks[n], "id") = paper_id})

\* C1: add_bookmark is idempotent.  An add_bookmark(p) made while no stored
\* bookmark has p's id appends p, writes the file and returns True, after
\* which exactly one copy with that id is stored; an add_bookmark(p) made
\* while a bookmark with p's id is stored returns False and leaves the file
\* as it is; and no other step ever adds a copy of any id.
AddBookmarkIdempotent ==
    [][LET before == load_bookmarks(bookmarks_json)
           after == load_bookmarks(bookmarks_json')
       IN  /\ last'.op = "add_bookmark" =>
                 LET p == last'.arg
                     id == get(p, "id")
                 IN  /\ Count(before, id) = 0 =>
                            /\ last'.ret = TRUE
                            /\ bookmarks_json' =
                                   BookmarksFile("object", Append(before, p))
                            /\ Count(after, id) = 1
                     /\ Count(before, id) > 0 =>
                            /\ last'.ret = FALSE
                            /\ bookmarks_json' = bookmarks_json
           /\ \A id \in PaperIds :
                 Count(after, id) > Count(before, id) =>
                     /\ last'.op = "add_bookmark"
                     /\ last'.ret = TRUE
                     /\ get(last'.arg, "id") = id
      ]_vars

\* C1 (witness): an add_bookmark of a paper whose id is stored once, under
\* another title, was refused
AddBookmarkRefused ==
    /\ last.op = "add_bookmark"
    /\ last.ret = FALSE
    /\ Count(load_bookmarks(bookmarks_json), get(last.arg, "id")) = 1
    /\ \A n \in 1..Len(load_bookmarks(bookmarks_json)) :
           load_bookmarks(bookmarks_json)[n] # last.arg

\* C2: in a session that starts from a bookmark file without duplicate ids,
\* the stored bookmark list never holds two bookmarks with the same id.
AtMostOneBookmarkPerId == NoDuplicateIds(load_bookmarks(bookmarks_json))

\* C2 (witness): MaxId bookmarks are stored, the second id is stored first,
\* and an add_bookmark has just been refused
FullListAddRefused ==
    /\ Len(load_bookmarks(bookmarks_json)) = MaxId
    /\ get(load_bookmarks(bookmarks_json)[1], "id") = <<2>>
    /\ last.op = "add_bookmark"
    /\ last.ret = FALSE

\* C3: once remove_bookmark(id) has completed, is_bookmarked(id) is False and
\* get_bookmark_metadata(id) is the default entry; when no bookmark had that
\* id the bookmark list is what it was.
RemoveBookmarkClearsBoth ==
    /\ [](last.op = "remove_bookmark" =>
             /\ ~is_bookmarked(last.arg)
             /\ get_bookmark_metadata(last.arg) = DefaultMetadata)
    /\ [][(last'.op = "remove_bookmark" /\ ~is_bookmarked(last'.arg)) =>
             load_bookmarks(bookmarks_json') = load_bookmarks(bookmarks_json)
         ]_vars

\* C3 (witness): a remove_bookmark has completed in a state where another
\* bookmark and another metadata entry are still stored
RemovedAmongOthers ==
    /\ last.op = "remove_bookmark"
    /\ Len(load_bookmarks(bookmarks_json)) >= 1
    /\ DOMAIN load_metadata(metadata_json) # {}

\* C4: in a session that starts with no bookmark and no metadata file, every
\* key of the metadata file is str(id) of a stored bookmark.
NoOrphanedMetadata ==
    \A key \in DOMAIN load_metadata(metadata_json) :
        \E n \in 1..Len(load_bookmarks(bookmarks_json)) :
            str(get(load_bookmarks(bookmarks_json)[n], "id")) = key

\* C4 (witness): a bookmark whose tags had been saved was removed while the
\* metadata of another bookmark stays stored
RemovedTaggedBookmark ==
    /\ last.op = "remove_bookmark"
    /\ Len(load_bookmarks(bookmarks_json)) = 1
    /\ DOMAIN load_metadata(metadata_json) # {}

----------------------------------------------------------------------------
(* Specification of the two AI caches alone *)

CacheKeys == {str(paper_id) : paper_id \in PaperIds}

\* the cache files a session may find: missing, or entries of earlier sessions
InitSummaryFiles ==
    {MissingFile}
        \cup {DictFile(m) :
                 m \in UNION {[K -> {"s0"}] : K \in SUBSET CacheKeys}}

InitRecommendationFiles ==
    {MissingFile}
        \cup {DictFile(m) :
                 m \in UNION {[K -> {<<"r", "0">>}] : K \in SUBSET CacheKeys}}

InitAI ==
    /\ literature = StoreCorpus
    /\ bookmarks_json = BookmarksFile("missing", <<>>)
    /\ metadata_json = MissingFile
    /\ summaries_json \in InitSummaryFiles
    /\ recommendations_json \in InitRecommendationFiles
    /\ OPENAI_API_KEY \in BOOLEAN
    /\ last = NoCall
    /\ Idle

SpecAI == InitAI /\ [][NextAI]_vars

----------------------------------------------------------------------------
(* Claims about the AI caches *)

summary_cache == load_summaries_cache(summaries_json)
recommendation_cache == load_recommendations_cache(recommendations_json)

SummarizerCauses == {r.cause : r \in {o \in SummarizerOutcomes : ~o.ok}}
RecommenderCauses == {r.cause : r \in {o \in RecommenderOutcomes : ~o.ok}}

\* C5: with a credential configured, the text a successful summarizer call
\* returns is the text stored for that id; a stored entry is never changed or
\* removed by a later step; and a get_ai_summary for an id that has an entry
\* returns that entry without invoking the summarizer, whatever the
\* summarizer would answer.
SummaryMemoized ==
    [][OPENAI_API_KEY =>
          /\ \A key \in DOMAIN summary_cache :
                /\ key \in DOMAIN summary_cache'
                /\ summary_cache'[key] = summary_cache[key]
                /\ (last'.op = "get_ai_summary" /\ str(last'.arg) = key) =>
                       /\ last'.ret = summary_cache[key]
                       /\ last'.external = "none"
          /\ (last'.op = "get_ai_summary" /\ last'.external = "returned") =>
                /\ str(last'.arg) \in DOMAIN summary_cache'
                /\ summary_cache'[str(last'.arg)] = last'.ret
      ]_vars

\* C5 (witness): a get_ai_summary was answered from the cache with a text
\* that the summarizer produced earlier in this session
SummaryServedFromCache ==
    /\ OPENAI_API_KEY
    /\ last.op = "get_ai_summary"
    /\ last.external = "none"
    /\ last.ret = "s1"

\* C6: a get_ai_summary whose summarizer call raises returns "Error
\* generating summary: <cause>" and leaves the summary cache file as it was,
\* so the id still has no entry; a get_ai_summary for an id without an entry
\* always invokes the summarizer; an entry appears only through a call that
\* returned.  The same for get_similar_papers and the recommendation cache,
\* whose message is "Error getting recommendations: <cause>".
FailureNotCached ==
    /\ [](/\ (last.op = "get_ai_summary" /\ last.external = "raised") =>
                 str(last.arg) \notin DOMAIN summary_cache
          /\ (last.op = "get_similar_papers" /\ last.external = "raised") =>
                 str(last.arg) \notin DOMAIN recommendation_cache)
    /\ [][/\ (last'.op = "get_ai_summary" /\ last'.external = "raised") =>
                 /\ \E cause \in SummarizerCauses :
                        last'.ret = "Error generating summary: " \o cause
                 /\ summaries_json' = summaries_json
          /\ (/\ last'.op = "get_ai_summary"
              /\ OPENAI_API_KEY
              /\ str(last'.arg) \notin DOMAIN summary_cache) =>
                 last'.external # "none"
          /\ \A key \in DOMAIN summary_cache' \ DOMAIN summary_cache :
                 /\ last'.op = "get_ai_summary"
                 /\ last'.external = "returned"
                 /\ str(last'.arg) = key
          /\ (last'.op = "get_similar_papers" /\ last'.external = "raised") =>
                 /\ \E cause \in RecommenderCauses :
                        last'.ret =
                            <<"E", "r", "r", "o", "r", " ", "g", "e", "t",
                              "t", "i", "n", "g", " ", "r", "e", "c", "o",
                              "m", "m", "e", "n", "d", "a", "t", "i", "o",
                              "n", "s", ":", " ">> \o cause
                 /\ recommendations_json' = recommendations_json
          /\ (/\ last'.op = "get_similar_papers"
              /\ OPENAI_API_KEY
              /\ str(last'.arg) \notin DOMAIN recommendation_cache) =>
                 last'.external # "none"
          /\ \A key \in DOMAIN recommendation_cache'
                            \ DOMAIN recommendation_cache :
                 /\ last'.op = "get_similar_papers"
                 /\ last'.external = "returned"
                 /\ str(last'.arg) = key
         ]_vars

\* C6 (witness): a recommender call has just failed for an id while the
\* summary of the same id, obtained in this session, is cached
RecommenderFailedAfterSummary ==
    /\ last.op = "get_similar_papers"
    /\ last.external = "raised"
    /\ str(last.arg) \in DOMAIN summary_cache
    /\ summary_cache[str(last.arg)] = "s2"

\* C7: with no credential, get_ai_summary and get_similar_papers return the
\* advisory string, load no cache file, make no external call and leave
\* both cache files as they are.
NoCredentialShortCircuits ==
    [][(~OPENAI_API_KEY
            /\ last'.op \in {"get_ai_summary", "get_similar_papers"}) =>
          /\ last'.op = "get_ai_summary" =>
                 last'.ret = "(!) API key not configured"
          /\ last'.op = "get_similar_papers" =>
                 last'.ret = RecommendationAdvisory
          /\ ~last'.cache_read
          /\ last'.external = "none"
          /\ summaries_json' = summaries_json
          /\ recommendations_json' = recommendations_json
      ]_vars

\* C7 (witness): without a credential, get_ai_summary returned the advisory
\* for an id that has an entry in the summary cache
AdvisoryDespiteCacheEntry ==
    /\ ~OPENAI_API_KEY
    /\ last.op = "get_ai_summary"
    /\ str(last.arg) \in DOMAIN summary_cache
    /\ last.ret = SummaryAdvisory

----------------------------------------------------------------------------
(* Search tab: app.py:407-438 (no-AI) and, word for word, 791-822 (AI) *)

UpperCase ==
    <<"A", "B", "C", "D", "E", "F", "G", "H", "I", "J", "K", "L", "M",
      "N", "O", "P", "Q", "R", "S", "T", "U", "V", "W", "X", "Y", "Z">>
LowerCase ==
    <<"a", "b", "c", "d", "e", "f", "g", "h", "i", "j", "k", "l", "m",
      "n", "o", "p", "q", "r", "s", "t", "u", "v", "w", "x", "y", "z">>

\* str.lower()
lower(s) ==
    [n \in 1..Len(s) |->
        IF \E k \in 1..26 : UpperCase[k] = s[n]
        THEN LowerCase[CHOOSE k \in 1..26 : UpperCase[k] = s[n]]
        ELSE s[n]]

\* sub in s
contains(s, sub) == find(s, sub) # 0

digit_value(c) ==
    CASE c = "0" -> 0 [] c = "1" -> 1 [] c = "2" -> 2 [] c = "3" -> 3
      [] c = "4" -> 4 [] c = "5" -> 5 [] c = "6" -> 6 [] c = "7" -> 7
      [] c = "8" -> 8 [] c = "9" -> 9

RECURSIVE digits_value(_, _)
digits_value(s, acc) ==
    IF s = <<>> THEN acc
    ELSE IF Head(s) = "_" THEN digits_value(Tail(s), acc)
    ELSE digits_value(Tail(s), 10 * acc + digit_value(Head(s)))

\* int(text): None when Python raises ValueError, else the number.  The text
\* is stripped; a sign may lead; digits follow, single underscores allowed
\* between digits.
int(text) ==
    LET t == strip(text)
        signed == t # <<>> /\ Head(t) \in {"+", "-"}
        body == IF signed THEN Tail(t) ELSE t
        wellformed ==
            /\ body # <<>>
            /\ \A n \in 1..Len(body) :
                   \/ isdigit(body[n])
                   \/ /\ body[n] = "_"
                      /\ 1 < n /\ n < Len(body)
                      /\ isdigit(body[n - 1]) /\ isdigit(body[n + 1])
    IN  IF ~wellformed THEN None
        ELSE IF signed /\ Head(t) = "-" THEN <<0 - digits_value(body, 0)>>
        ELSE <<digits_value(body, 0)>>

\* " ".join(authors) of a list, str(authors) of a string, [] when absent
authors_str(item) ==
    IF "authors" \notin DOMAIN item THEN <<>>
    ELSE IF item.authors.isList THEN join(<<" ">>, item.authors.value)
    ELSE item.authors.value

\* faulty variant, for sensitivity of the property: the author test is a second "if", not the "else" of the first
RECURSIVE search_without_else(_, _)
search_without_else(corpus, query) ==
    IF corpus = <<>> THEN <<>>
    ELSE LET item == Head(corpus)
             search_id == int(strip(query))
             hit == IF search_id # None
                    THEN IF get(item, "id") = search_id THEN <<item>>
                         ELSE <<>>
                    ELSE (IF contains(lower(item.title), lower(query))
                          THEN <<item>> ELSE <<>>)
                         \o (IF contains(lower(authors_str(item)),
                                         lower(query))
                             THEN <<item>> ELSE <<>>)
         IN  hit \o search_without_else(Tail(corpus), query)

\* faulty variant, for sensitivity of the property: a number that is no one's id is then searched as text
RECURSIVE search_text(_, _)
search_text(corpus, query) ==
    IF corpus = <<>> THEN <<>>
    ELSE LET item == Head(corpus)
             hit == IF contains(lower(item.title), lower(query))
                    THEN <<item>>
                    ELSE IF contains(lower(authors_str(item)), lower(query))
                    THEN <<item>>
                    ELSE <<>>
         IN  hit \o search_text(Tail(corpus), query)

search_id_then_text(corpus, query) ==
    LET search_id == int(strip(query))
        by_id == SelectSeq(corpus, LAMBDA item : get(item, "id") = search_id)
    IN  IF search_id # None /\ by_id # <<>> THEN by_id
        ELSE search_text(corpus, query)

\* faulty variant, for sensitivity of the property: only a query made of
\* digits alone is searched as an id
RECURSIVE search_isdigit(_, _)
search_isdigit(corpus, query) ==
    IF corpus = <<>> THEN <<>>
    ELSE LET item == Head(corpus)
             search_id == IF query = strip(query) THEN int(query) ELSE None
             hit == IF search_id # None
                    THEN IF get(item, "id") = search_id THEN <<item>>
                         ELSE <<>>
                    ELSE IF contains(lower(item.title), lower(query))
                    THEN <<item>>
                    ELSE IF contains(lower(authors_str(item)), lower(query))
                    THEN <<item>>
                    ELSE <<>>
         IN  hit \o search_isdigit(Tail(corpus), query)

\* app.py:416-438: the loop over literature, one item at a time
RECURSIVE search(_, _)
search(corpus, query) ==
    IF corpus = <<>> THEN <<>>
    ELSE LET item == Head(corpus)
             search_id == int(strip(query))
             hit == IF search_id # None
                    THEN IF get(item, "id") = search_id THEN <<item>>
                         ELSE <<>>
                    ELSE IF contains(lower(item.title), lower(query))
                    THEN <<item>>
                    ELSE IF contains(lower(authors_str(item)), lower(query))
                    THEN <<item>>
                    ELSE <<>>
         IN  hit \o search(Tail(corpus), query)

\* the run that follows the user's entering search_query in the box:
\* on_search_input_change sets show_search_results, an empty box clears it
\* (app.py:412); results is None when no result list is drawn
search_tab ==
    LET show_search_results == search_query # <<>>
    IN  /\ results' = IF search_query # <<>> /\ show_search_results
                      THEN <<search(literature, search_query)>>
                      ELSE None
        /\ last' = Call("search", search_query, None, "none", FALSE)
        /\ UNCHANGED <<literature, bookmarks_json, metadata_json,
                       summaries_json, recommendations_json, OPENAI_API_KEY,
                       source, search_query, recommender_reply, sessions>>

QueryChars == {" ", "1", "2", "a", "A", "-"}
Queries == BoundedSeq(QueryChars, MaxQueryLen)

Authors(value) == [isList |-> TRUE, value |-> value]
AuthorString(value) == [isList |-> FALSE, value |-> value]

SearchPapers ==
    {[id |-> 1, title |-> <<"a", "2">>, authors |-> Authors(<< <<"A">> >>)],
     [id |-> 2, title |-> <<"1", "2">>,
      authors |-> Authors(<< <<"1">>, <<"a">> >>)],
     [id |-> 12, title |-> <<"A", "-", "1">>,
      authors |-> AuthorString(<<"2", " ", "A">>)],
     [id |-> 1, title |-> <<" ", "1">>, authors |-> Authors(<<>>)],
     [id |-> 0 - 1, title |-> <<"A", "a">>]}

\* a corpus and the text the user has entered in the search box
InitSearch ==
    /\ literature \in BoundedSeq(SearchPapers, MaxCorpusLen)
    /\ bookmarks_json = BookmarksFile("missing", <<>>)
    /\ metadata_json = MissingFile
    /\ summaries_json = MissingFile
    /\ recommendations_json = MissingFile
    /\ OPENAI_API_KEY = FALSE
    /\ last = NoCall
    /\ source = [kind |-> "missing", items |-> <<>>]
    /\ search_query \in Queries
    /\ results = None
    /\ recommender_reply = <<>>
    /\ sessions = NoSessions

NextSearch == search_tab

SpecSearch == InitSearch /\ [][NextSearch]_vars

----------------------------------------------------------------------------
(* Claims about the search *)

\* C8: when the trimmed query parses as an integer n, the result list is
\* exactly the papers of the corpus whose id is n, in corpus order: so it
\* holds no paper with another id, whatever its title and authors contain,
\* and is empty when no paper has id n.
NumericQueryMatchesIdOnly ==
    (last.op = "search" /\ results # None /\ int(strip(search_query)) # None)
        => results[1] =
               SelectSeq(literature,
                         LAMBDA item : <<item.id>> = int(strip(search_query)))

\* C8 (witness): the query "1" was searched in a corpus whose first paper
\* has "1" in its title but another id, and whose second paper has id 1
IdSearchSkippedTitleMatch ==
    /\ last.op = "search"
    /\ search_query = <<" ", "1">>
    /\ Len(literature) = 2
    /\ literature[1].id = 12
    /\ results = << <<literature[2]>> >>

\* C9: when the query does not parse as an integer, the result list is the
\* corpus, in corpus order and each record at most once, restricted to the
\* papers whose lower-cased title, or lower-cased authors joined by single
\* spaces, has the lower-cased query as a substring.
TextQueryMatchesTitleOrAuthors ==
    (last.op = "search" /\ results # None /\ int(strip(search_query)) = None)
        => LET q == lower(search_query)
               Occurs(text) ==
                   \E n \in 1..(Len(text) + 1 - Len(q)) :
                       SubSeq(lower(text), n, n + Len(q) - 1) = q
               joined(item) ==
                   IF "authors" \notin DOMAIN item THEN <<>>
                   ELSE IF item.authors.isList
                   THEN join(<<" ">>, item.authors.value)
                   ELSE item.authors.value
           IN  results[1] =
                   SelectSeq(literature,
                             LAMBDA item : \/ Occurs(item.title)
                                           \/ Occurs(joined(item)))

\* C9 (witness): the query "A" was searched in a corpus of two papers that
\* both have the letter in the title and in the authors, the first of them
\* only as "a" in its title
TextSearchFoundEachOnce ==
    /\ last.op = "search"
    /\ search_query = <<"A">>
    /\ Len(literature) = 2
    /\ literature[1] # literature[2]
    /\ ~contains(literature[1].title, <<"A">>)
    /\ \A n \in 1..2 :
           /\ contains(lower(literature[n].title), <<"a">>)
           /\ contains(lower(authors_str(literature[n])), <<"a">>)
    /\ results = <<literature>>

----------------------------------------------------------------------------
(* load_literature: app.py:50-68, 367 *)

\* example-bib.json: missing, {"references": items}, a bare list items, any
\* other JSON value ("other"), or text that is not JSON ("invalid")
SourceFile(kind, items) == [kind |-> kind, items |-> items]

\* the result of a call that ended in an exception
raised(exception) == <<[exception |-> exception]>>

\* json.load(f) at app.py:54 is not inside a try: on text that is not JSON
\* it raises json.JSONDecodeError, which leaves load_literature
json_load_raises(file) == file.kind = "invalid"

\* faulty variant, for sensitivity of the property: the numbering goes on from the papers loaded before
load_literature_continuing(file) ==
    IF file.kind \in {"object", "list"}
    THEN [n \in 1..Len(file.items) |->
             IF "id" \notin DOMAIN file.items[n]
             THEN setitem(file.items[n], "id", Len(literature) + n)
             ELSE file.items[n]]
    ELSE <<>>

\* enumerate counts i from 0 and the item at i gets id i + 1
load_literature(file) ==
    IF file.kind \in {"object", "list"}
    THEN [n \in 1..Len(file.items) |->
             LET i == n - 1
             IN  IF "id" \notin DOMAIN file.items[n]
                 THEN setitem(file.items[n], "id", i + 1)
                 ELSE file.items[n]]
    ELSE <<>>

\* a run of the script: app.py:367
\* when the call raises, the run of the script ends there and no corpus
\* is bound
LoadLiterature ==
    /\ IF json_load_raises(source)
       THEN /\ literature' = <<>>
            /\ last' = Call("load_literature", None,
                            raised("JSONDecodeError"), "none", FALSE)
       ELSE /\ literature' = load_literature(source)
            /\ last' = Call("load_literature", None, None, "none", FALSE)
    /\ UNCHANGED <<bookmarks_json, metadata_json, summaries_json,
                   recommendations_json, OPENAI_API_KEY, source,
                   search_query, results, recommender_reply, sessions>>

\* records of a source file: without an id, and with one
SourceItems ==
    {[title |-> <<"a">>], [title |-> <<"b">>], [id |-> 2, title |-> <<"c">>]}

Sources ==
    {SourceFile(kind, <<>>) : kind \in {"missing", "other", "invalid"}}
        \cup {SourceFile(kind, items) :
                 kind \in {"object", "list"},
                 items \in BoundedSeq(SourceItems, MaxSourceLen)}

\* between two runs the user replaces the source file
ReplaceSource ==
    /\ source' \in Sources
    /\ last' = Call("replace_source", None, None, "none", FALSE)
    /\ UNCHANGED <<literature, bookmarks_json, metadata_json, summaries_json,
                   recommendations_json, OPENAI_API_KEY, search_query,
                   results, recommender_reply, sessions>>

InitLoad ==
    /\ literature = <<>>
    /\ bookmarks_json = BookmarksFile("missing", <<>>)
    /\ metadata_json = MissingFile
    /\ summaries_json = MissingFile
    /\ recommendations_json = MissingFile
    /\ OPENAI_API_KEY = FALSE
    /\ last = NoCall
    /\ source \in Sources
    /\ search_query = <<>>
    /\ results = None
    /\ recommender_reply = <<>>
    /\ sessions = NoSessions

NextLoad ==
    \/ LoadLiterature
    \/ ReplaceSource

SpecLoad == InitLoad /\ [][NextLoad]_vars

----------------------------------------------------------------------------
(* Claims about load_literature *)

\* C10: after load_literature on a source of N records that all lack an id,
\* the N loaded papers are the records in source order with ids 1..N; and a
\* load_literature that follows a load_literature of the same source yields
\* the same papers, ids included.
LoadAssignsSequentialIds ==
    /\ [](( /\ last.op = "load_literature"
            /\ source.kind \in {"object", "list"}
            /\ \A n \in 1..Len(source.items) :
                   "id" \notin DOMAIN source.items[n])
          => /\ Len(literature) = Len(source.items)
             /\ \A n \in 1..Len(literature) :
                    /\ DOMAIN literature[n] = DOMAIN source.items[n] \cup {"id"}
                    /\ literature[n].id = n
                    /\ literature[n].title = source.items[n].title)
    /\ [][( /\ last.op = "load_literature"
            /\ last'.op = "load_literature"
            /\ source' = source)
          => literature' = literature]_vars

\* C10 (witness): a source of MaxSourceLen records without ids was loaded
LoadedIdlessSource ==
    /\ last.op = "load_literature"
    /\ source.kind = "object"
    /\ Len(source.items) = MaxSourceLen
    /\ \A n \in 1..Len(source.items) : "id" \notin DOMAIN source.items[n]
    /\ literature[MaxSourceLen].id = MaxSourceLen

\* C11: after load_literature of a source in which the records that carry an
\* explicit id carry pairwise distinct ids, the loaded papers have pairwise
\* distinct ids, and an ID search returns at most one paper.
LoadedIdsUnique ==
    ( /\ last.op = "load_literature"
      /\ last.ret = None
      /\ source.kind \in {"object", "list"}
      /\ \A m, n \in 1..Len(source.items) :
             ( /\ m # n
               /\ "id" \in DOMAIN source.items[m]
               /\ "id" \in DOMAIN source.items[n])
             => source.items[m].id # source.items[n].id)
    => /\ \A m, n \in 1..Len(literature) :
              m # n => literature[m].id # literature[n].id
       /\ \A q \in {<<"1">>, <<"2">>, <<"3">>} :
              Len(search(literature, q)) <= 1

\* C12: load_literature does not raise and returns the empty sequence when
\* the corpus file is missing, is not valid JSON, or is JSON that is neither
\* a list nor an object with a "references" key.
LoadNeverRaises ==
    ( /\ last.op = "load_literature"
      /\ source.kind \in {"missing", "invalid", "other"})
    => /\ last.ret = None
       /\ literature = <<>>

----------------------------------------------------------------------------
(* Citation links: app.py:129-134, 327-364 *)

MaxCiteLen == 2

\* the title returned for an id no paper carries, and for a paper that has
\* no title (app.py:133-134)
Unknown == <<"U", "n", "k", "n", "o", "w", "n">>

\* for paper in literature: the first paper whose id equals paper_id
RECURSIVE title_of_first(_, _)
title_of_first(papers, paper_id) ==
    IF papers = <<>> THEN Unknown
    ELSE IF get(Head(papers), "id") = <<paper_id>>
         THEN IF "title" \in DOMAIN Head(papers)
              THEN Head(papers).title
              ELSE Unknown
         ELSE title_of_first(Tail(papers), paper_id)

get_paper_title_by_id(paper_id) == title_of_first(literature, paper_id)

\* key=f"cite_link_{context}_{cite_id}" and
\* key=f"cited_by_link_{context}_{cited_by_id}"
widget_key(prefix, context, id) == <<prefix, context, id>>

\* the button drawn for the id at position n of a list
citation_button(prefix, context, ids, n) ==
    [id    |-> ids[n],
     title |-> get_paper_title_by_id(ids[n]),
     key   |-> widget_key(prefix, context, ids[n])]

\* st.button raises DuplicateWidgetID when a widget with the same key was
\* already drawn in this run: the position of the first such button, or 0
first_duplicate_key(prefix, context, ids) ==
    LET dup == {n \in 1..Len(ids) :
                   \E m \in 1..(n - 1) :
                       widget_key(prefix, context, ids[m])
                           = widget_key(prefix, context, ids[n])}
    IN  IF dup = {} THEN 0
        ELSE CHOOSE n \in dup : \A m \in dup : n <= m

\* one column of display_citation_links: the buttons drawn, in list order,
\* up to the button that raises
citation_buttons(prefix, context, ids) ==
    LET stop  == first_duplicate_key(prefix, context, ids)
        drawn == IF stop = 0 THEN Len(ids) ELSE stop - 1
    IN  [n \in 1..drawn |-> citation_button(prefix, context, ids, n)]

\* display_citation_links(cites_list, cited_by_list, context): the second
\* column is drawn only when the first one did not raise
display_citation_links(cites_list, cited_by_list, context) ==
    LET cites_raises == first_duplicate_key("cite_link", context, cites_list) # 0
        cited_raises ==
            first_duplicate_key("cited_by_link", context, cited_by_list) # 0
    IN  [cites    |-> citation_buttons("cite_link", context, cites_list),
         cited_by |-> IF cites_raises THEN <<>>
                      ELSE citation_buttons("cited_by_link", context,
                                            cited_by_list),
         raised   |-> cites_raises \/ cited_raises]

\* the corpora of the citation specification: empty, two papers with the
\* same id, a paper without a title, and two papers with different ids
CiteCorpora ==
    {<<>>,
     <<[id |-> 1, title |-> <<"a">>], [id |-> 1, title |-> <<"b">>]>>,
     <<[id |-> 1]>>,
     <<[id |-> 2, title |-> <<"b">>], [id |-> 1, title |-> <<"a">>]>>}

\* ids a cites or cited_by list may hold: an id of the corpus and an id no
\* paper carries
CiteIds == {1, 999}

CiteLists == BoundedSeq(CiteIds, MaxCiteLen)

\* the expander of one paper is drawn: app.py:485-489
DisplayCitationLinks ==
    \E cites \in CiteLists, cited_by \in CiteLists :
        /\ cites # <<>> \/ cited_by # <<>>
        /\ last' = Call("display_citation_links",
                        [cites |-> cites, cited_by |-> cited_by],
                        display_citation_links(cites, cited_by, "search_0_1"),
                        "none", FALSE)
        /\ UNCHANGED <<literature, bookmarks_json, metadata_json,
                       summaries_json, recommendations_json, OPENAI_API_KEY,
                       source, search_query, results, recommender_reply,
                       sessions>>

InitCite ==
    /\ literature \in CiteCorpora
    /\ bookmarks_json = BookmarksFile("missing", <<>>)
    /\ metadata_json = MissingFile
    /\ summaries_json = MissingFile
    /\ recommendations_json = MissingFile
    /\ OPENAI_API_KEY = FALSE
    /\ last = NoCall
    /\ source = SourceFile("missing", <<>>)
    /\ search_query = <<>>
    /\ results = None
    /\ recommender_reply = <<>>
    /\ sessions = NoSessions

NextCite == DisplayCitationLinks

SpecCite == InitCite /\ [][NextCite]_vars

\* C13: display_citation_links does not fail, and for the cites list and for
\* the cited_by list the buttons drawn are as many as the ids of the list, in
\* list order, repeated ids kept, each with the title of the corpus paper
\* that has the id, or "Unknown" when no corpus paper has it.
CitationResolutionTotal ==
    last.op = "display_citation_links"
    => /\ ~last.ret.raised
       /\ \A side \in {"cites", "cited_by"} :
              /\ Len(last.ret[side]) = Len(last.arg[side])
              /\ \A n \in 1..Len(last.ret[side]) :
                     /\ last.ret[side][n].id = last.arg[side][n]
                     /\ IF \E p \in 1..Len(literature) :
                               literature[p].id = last.arg[side][n]
                        THEN \E p \in 1..Len(literature) :
                                 /\ literature[p].id = last.arg[side][n]
                                 /\ "title" \in DOMAIN literature[p]
                                    => last.ret[side][n].title
                                           = literature[p].title
                        ELSE last.ret[side][n].title = Unknown

----------------------------------------------------------------------------
(* The recommendation parser on the replies of the recommender:            *)
(* app.py:268-320                                                          *)

\* pieces of reply lines: "<digits>. " prefixes, titles and URLs of Markdown
\* links, reasons, titles of lines without a link
Ordinals == {<<"1", ".", " ">>, <<"1", "2", ".", " ">>}
LinkTitles == {<<"T">>, <<"A", " ", "-", " ", "B">>}
LinkUrls == {<<"u">>}
Reasons == {<<"r">>, <<"r", " ", "-", " ", "s">>}
PlainTitles == {<<"P">>, <<"3", "D">>, <<"3", "D", ".", " ", "A">>}

Dash == <<" ", "-", " ">>
Bold == <<"*", "*">>

\* the default reason of app.py:296
RelatedPaper == <<"R", "e", "l", "a", "t", "e", "d", " ", "p", "a", "p", "e", "r">>

\* the text "[title](url)"
markdown_link(title, url) ==
    <<"[">> \o title \o <<"]", "(">> \o url \o <<")">>

\* lines "<digits>. [T](U)" and "<digits>. [T](U) - R"
LinkLines ==
    {ord \o markdown_link(title, url) \o tail :
        ord \in Ordinals, title \in LinkTitles, url \in LinkUrls,
        tail \in {<<>>} \cup {Dash \o reason : reason \in Reasons}}

\* lines "T - R" and "<digits>. T - R" without a link
PlainLines ==
    {ord \o title \o Dash \o reason :
        ord \in Ordinals \cup {<<>>}, title \in PlainTitles,
        reason \in Reasons}

\* lines with neither a link nor " - ", and a blank line
OtherLines == {<<"n", "o">>, <<"2", ".", " ", "n", "o">>, <<" ">>}

\* the replies: nothing, one line, or two lines
TwoLineParts == {<<"n", "o">>, <<"P">> \o Dash \o <<"r">>,
                 <<"1", ".", " ">> \o markdown_link(<<"T">>, <<"u">>) \o Dash \o <<"r">>}

Replies ==
    {<<>>} \cup LinkLines \cup PlainLines \cup OtherLines
        \cup {first \o <<"\n">> \o second :
                 first \in TwoLineParts, second \in TwoLineParts}

\* a session with a credential in which the recommender answers every
\* request with recommender_reply
GetSimilarPapersReply ==
    \E paper_id \in PaperIds :
        get_similar_papers(paper_id,
                           [ok |-> TRUE, content |-> recommender_reply])

InitParse ==
    /\ literature = StoreCorpus
    /\ bookmarks_json = BookmarksFile("missing", <<>>)
    /\ metadata_json = MissingFile
    /\ summaries_json = MissingFile
    /\ recommendations_json = MissingFile
    /\ OPENAI_API_KEY = TRUE
    /\ last = NoCall
    /\ source = SourceFile("missing", <<>>)
    /\ search_query = <<>>
    /\ results = None
    /\ recommender_reply \in Replies
    /\ sessions = NoSessions

NextParse == GetSimilarPapersReply

SpecParse == InitParse /\ [][NextParse]_vars

\* a get_similar_papers that asked the recommender and got a reply
RecommenderAnswered ==
    /\ last.op = "get_similar_papers"
    /\ last.external = "returned"

\* C14: for a reply line "<digits>. [T](U) - R" the entry returned is
\* "**[T](U)** - R", and for a reply line "<digits>. [T](U)", which has no
\* " - " after the link, it is "**[T](U)** - Related paper".
LinkLineFormatted ==
    RecommenderAnswered
    => \A ord \in Ordinals, title \in LinkTitles, url \in LinkUrls :
           /\ \A reason \in Reasons :
                  recommender_reply
                      = ord \o markdown_link(title, url) \o Dash \o reason
                  => last.ret = Bold \o markdown_link(title, url) \o Bold
                                    \o Dash \o reason
           /\ recommender_reply = ord \o markdown_link(title, url)
              => last.ret = Bold \o markdown_link(title, url) \o Bold
                                \o Dash \o RelatedPaper

\* C15: a reply line without a Markdown link, "T - R" or "<digits>. T - R",
\* yields the entry "**T** - R", T being the text before the first " - ";
\* a line with neither a link nor " - " yields no entry.
PlainLineFormatted ==
    RecommenderAnswered
    => \A ord \in Ordinals \cup {<<>>}, title \in PlainTitles,
          reason \in Reasons :
           LET line  == ord \o title \o Dash \o reason
               entry == Bold \o title \o Bold \o Dash \o reason
           IN  /\ recommender_reply = line => last.ret = entry
               /\ \A other \in OtherLines :
                      /\ recommender_reply = other \o <<"\n">> \o line
                         => last.ret = entry
                      /\ recommender_reply = line \o <<"\n">> \o other
                         => last.ret = entry

\* C16: when get_similar_papers asked the recommender and got a reply, the
\* string it returns is the string stored in the cache for the paper; it is
\* the raw reply when no line of the reply parsed and the joined entries
\* otherwise; and it is not empty unless the reply is.
RawFallbackCached ==
    RecommenderAnswered
    => LET cache   == load_recommendations_cache(recommendations_json)
           key     == str(last.arg)
           entries == parse_lines(split_char(strip(recommender_reply),
                                             "\n", <<>>))
       IN  /\ key \in DOMAIN cache
           /\ cache[key] = last.ret
           /\ recommender_reply # <<>> => last.ret # <<>>
           /\ entries = <<>> => last.ret = recommender_reply
           /\ entries # <<>> => last.ret = join(<<"\n">>, entries)

\* C16 (witness): a reply of two lines none of which parses was returned raw
\* and stored
RawReplyStored ==
    /\ RecommenderAnswered
    /\ recommender_reply = <<"n", "o", "\n", "n", "o">>
    /\ last.ret = recommender_reply
    /\ load_recommendations_cache(recommendations_json)[str(last.arg)]
           = recommender_reply

----------------------------------------------------------------------------
(* Bookmarks tab: the colours of the stored tags, app.py:567-600, 707-727, *)
(* and the entries "Save Tags & Comments" writes, app.py:739-749           *)

\* str.upper()
upper(s) ==
    [n \in 1..Len(s) |->
        IF \E k \in 1..26 : LowerCase[k] = s[n]
        THEN UpperCase[CHOOSE k \in 1..26 : LowerCase[k] = s[n]]
        ELSE s[n]]

\* hex_to_emoji.get(hex_color, <Blue>) with
\* hex_to_emoji = {v.upper(): k.split()[0] for k, v in emoji_colors.items()};
\* the emoji is named by its label
hex_to_emoji(hex_color) ==
    LET hits == {n \in 1..Len(ColorLabels) :
                    upper(emoji_colors[ColorLabels[n]]) = hex_color}
    IN  IF hits = {} THEN "Blue"
        ELSE ColorLabels[CHOOSE n \in hits : \A m \in hits : n <= m]

\* app.py:596-598: the emoji shown for a tag in the expander title
title_emoji(tag_colors, tag) ==
    LET hex_color == upper(IF tag \in DOMAIN tag_colors THEN tag_colors[tag]
                           ELSE emoji_colors["Blue"])
    IN  hex_to_emoji(hex_color)

\* the expander of bookmark i as drawn from the stored entry, before the
\* user edits the form: the emoji of each stored tag in the title, and the
\* label each colour selectbox starts on
bookmarks_tab_colors(i) ==
    LET bookmarks == load_bookmarks(bookmarks_json)
        metadata == get_bookmark_metadata(get(bookmarks[i], "id"))
        tags == metadata.tags
        tag_colors == metadata.tag_colors
    IN  [title    |-> [tag \in TagSet(tags) |-> title_emoji(tag_colors, tag)],
         selector |-> [tag \in TagSet(tags) |-> current_label(tag_colors, tag)]]

DrawBookmark ==
    \E i \in 1..Len(load_bookmarks(bookmarks_json)) :
        /\ last' = Call("bookmarks_tab",
                        get(load_bookmarks(bookmarks_json)[i], "id"),
                        bookmarks_tab_colors(i), "none", FALSE)
        /\ UNCHANGED <<literature, bookmarks_json, metadata_json,
                       summaries_json, recommendations_json, OPENAI_API_KEY,
                       source, search_query, results, recommender_reply,
                       sessions>>

\* colour codes a metadata file may hold for a tag: a palette code as the
\* program writes it, the same code in lower case, and a code that is not in
\* the palette
StoredHex == {emoji_colors["Red"], <<"#", "f", "f", "0", "0", "0", "0">>, <<"#", "1", "2", "3", "4", "5", "6">>}

\* entries of a metadata file: tag x with one of these codes or with none,
\* and an entry that also holds a colour for a tag y it no longer has and a
\* field the program does not know
TagEntries ==
    {[tags |-> << <<"x">> >>, comments |-> "old",
      tag_colors |-> (<<"x">> :> hex)] : hex \in StoredHex}
        \cup {[tags |-> << <<"x">> >>, comments |-> "old",
               tag_colors |-> EmptyDict],
              [tags |-> << <<"x">> >>, comments |-> "old",
               tag_colors |-> (<<"x">> :> emoji_colors["Green"])
                                  @@ (<<"y">> :> emoji_colors["Red"]),
               rating |-> "5"]}

\* what the user may type in the tag box in this specification
TagsTabInputs == TagInputs \cup {<<"y">>, <<>>}

SaveTagsAndCommentsOfTab ==
    \E i \in 1..Len(load_bookmarks(bookmarks_json)) :
        \E tags_input \in TagsTabInputs, new_comments \in CommentInputs :
            \E choice \in [TagSet(parse_tags(tags_input)) -> ColorChoices] :
                save_tags_and_comments(i, tags_input, choice, new_comments)

\* both papers of the corpus are bookmarked; the first one's entry is any of
\* TagEntries or missing, the second one's is missing or the plain entry
InitTags ==
    /\ literature = StoreCorpus
    /\ bookmarks_json = BookmarksFile("object", StoreCorpus)
    /\ \E first \in SUBSET TagEntries, second \in SUBSET InitEntries :
           /\ Cardinality(first) <= 1
           /\ Cardinality(second) <= 1
           /\ metadata_json =
                  DictFile([k \in {"1" : e \in first} \cup {"2" : e \in second}
                               |-> IF k = "1" THEN CHOOSE e \in first : TRUE
                                   ELSE CHOOSE e \in second : TRUE])
    /\ summaries_json = MissingFile
    /\ recommendations_json = MissingFile
    /\ OPENAI_API_KEY = FALSE
    /\ last = NoCall
    /\ Idle

NextTags ==
    \/ DrawBookmark
    \/ SaveTagsAndCommentsOfTab

SpecTags == InitTags /\ [][NextTags]_vars

\* the palette label whose code equals hex ignoring letter case, else Blue
label_ignoring_case(hex) ==
    IF \E n \in 1..Len(ColorLabels) :
           lower(emoji_colors[ColorLabels[n]]) = lower(hex)
    THEN CHOOSE label \in DOMAIN emoji_colors :
             lower(emoji_colors[label]) = lower(hex)
    ELSE "Blue"

\* C17: when a bookmark is drawn, for every stored tag the emoji of the
\* expander title and the starting label of the colour selectbox are both
\* the palette entry whose code equals the stored code ignoring letter case,
\* and Blue when there is no such entry or no code is stored for the tag.
ColourResolvedIgnoringCase ==
    last.op = "bookmarks_tab"
    => LET metadata == get_bookmark_metadata(last.arg)
       IN  \A tag \in TagSet(metadata.tags) :
               LET label == IF tag \in DOMAIN metadata.tag_colors
                            THEN label_ignoring_case(metadata.tag_colors[tag])
                            ELSE "Blue"
               IN  /\ last.ret.title[tag] = label
                   /\ last.ret.selector[tag] = label

\* C18: a "Save Tags & Comments" for the bookmark with id k makes the stored
\* entry of k exactly the entry of the form, with the fields tags, comments
\* and tag_colors and no other, and leaves the entry of every other id as it
\* was.
SaveReplacesEntry ==
    [][last'.op = "save_metadata"
       => LET before == load_metadata(metadata_json)
              after  == load_metadata(metadata_json')
              k      == str(last'.arg)
          IN  /\ DOMAIN after = DOMAIN before \cup {k}
              /\ after[k] = last'.ret
              /\ DOMAIN after[k] = {"tags", "comments", "tag_colors"}
              /\ \A j \in DOMAIN before \ {k} : after[j] = before[j]]_vars

\* C18 (witness): the first bookmark, whose stored entry had tag x, the
\* comment "old" and a rating, was saved with tag y and another comment
\* while the second bookmark had an entry
SavedOverRatedEntry ==
    /\ last.op = "save_metadata"
    /\ last.arg = <<1>>
    /\ LET metadata == load_metadata(metadata_json)
       IN  /\ metadata["1"].tags = << <<"y">> >>
           /\ metadata["1"].comments = "note"
           /\ <<"x">> \in DOMAIN metadata["1"].tag_colors
           /\ "2" \in DOMAIN metadata
           /\ metadata["2"].comments = "old"

----------------------------------------------------------------------------
(* The store functions line by line, for sessions that run at the same     *)
(* time and for a process that stops between two lines: app.py:98-117,     *)
(* 739-749                                                                 *)

\* session s is inside a function, at the given line, with these locals
InCall(pc, arg, bookmarks, metadata, entry, done) ==
    [pc |-> pc, arg |-> arg, bookmarks |-> bookmarks, metadata |-> metadata,
     entry |-> entry, done |-> done]

\* session s returns from a call
Return(s, call) ==
    /\ sessions' = [sessions EXCEPT ![s] = IdleSession(call)]
    /\ last' = call

\* add_bookmark, app.py:100: bookmarks = load_bookmarks()
add_bookmark_100(s, paper) ==
    /\ sessions[s].pc = "idle"
    /\ sessions' = [sessions EXCEPT ![s] =
                       InCall("add_bookmark:102", paper,
                              load_bookmarks(bookmarks_json), EmptyDict,
                              None, sessions[s].done)]
    /\ UNCHANGED <<literature, bookmarks_json, metadata_json, summaries_json,
                   recommendations_json, OPENAI_API_KEY, last, source,
                   search_query, results, recommender_reply>>

\* faulty variant, for sensitivity of the property: the file is read again
\* when it is written
add_bookmark_102_rereading(s) ==
    /\ sessions[s].pc = "add_bookmark:102"
    /\ LET paper == sessions[s].arg
           bookmarks == load_bookmarks(bookmarks_json)
       IN  IF ~any_id(bookmarks, get(paper, "id"))
           THEN /\ bookmarks_json' = save_bookmarks(Append(bookmarks, paper))
                /\ Return(s, Call("add_bookmark", paper, TRUE, "none", FALSE))
           ELSE /\ bookmarks_json' = bookmarks_json
                /\ Return(s, Call("add_bookmark", paper, FALSE, "none",
                                  FALSE))
    /\ UNCHANGED <<literature, metadata_json, summaries_json,
                   recommendations_json, OPENAI_API_KEY, source, search_query,
                   results, recommender_reply>>

\* faulty variant, for sensitivity of the property: the check is made on the
\* copy read at line 100 and the paper is appended to the file as it is now
add_bookmark_102_appending(s) ==
    /\ sessions[s].pc = "add_bookmark:102"
    /\ LET paper == sessions[s].arg
           bookmarks == sessions[s].bookmarks
       IN  IF ~any_id(bookmarks, get(paper, "id"))
           THEN /\ bookmarks_json' =
                       save_bookmarks(Append(load_bookmarks(bookmarks_json),
                                             paper))
                /\ Return(s, Call("add_bookmark", paper, TRUE, "none", FALSE))
           ELSE /\ bookmarks_json' = bookmarks_json
                /\ Return(s, Call("add_bookmark", paper, FALSE, "none",
                                  FALSE))
    /\ UNCHANGED <<literature, metadata_json, summaries_json,
                   recommendations_json, OPENAI_API_KEY, source, search_query,
                   results, recommender_reply>>

\* add_bookmark, app.py:102-106: the check, the append and save_bookmarks
add_bookmark_102(s) ==
    /\ sessions[s].pc = "add_bookmark:102"
    /\ LET paper == sessions[s].arg
           bookmarks == sessions[s].bookmarks
       IN  IF ~any_id(bookmarks, get(paper, "id"))
           THEN /\ bookmarks_json' = save_bookmarks(Append(bookmarks, paper))
                /\ Return(s, Call("add_bookmark", paper, TRUE, "none", FALSE))
           ELSE /\ bookmarks_json' = bookmarks_json
                /\ Return(s, Call("add_bookmark", paper, FALSE, "none",
                                  FALSE))
    /\ UNCHANGED <<literature, metadata_json, summaries_json,
                   recommendations_json, OPENAI_API_KEY, source, search_query,
                   results, recommender_reply>>

\* remove_bookmark, app.py:110: bookmarks = load_bookmarks()
remove_bookmark_110(s, paper_id) ==
    /\ sessions[s].pc = "idle"
    /\ sessions' = [sessions EXCEPT ![s] =
                       InCall("remove_bookmark:111", paper_id,
                              load_bookmarks(bookmarks_json), EmptyDict,
                              None, sessions[s].done)]
    /\ UNCHANGED <<literature, bookmarks_json, metadata_json, summaries_json,
                   recommendations_json, OPENAI_API_KEY, last, source,
                   search_query, results, recommender_reply>>

\* faulty variant, for sensitivity of the property: the bookmark file is
\* not written before the metadata file
remove_bookmark_111_later(s) ==
    /\ sessions[s].pc = "remove_bookmark:111"
    /\ sessions' = [sessions EXCEPT ![s].pc = "remove_bookmark:114"]
    /\ UNCHANGED <<literature, bookmarks_json, metadata_json, summaries_json,
                   recommendations_json, OPENAI_API_KEY, last, source,
                   search_query, results, recommender_reply>>

\* remove_bookmark, app.py:111-112: the filter and save_bookmarks
remove_bookmark_111(s) ==
    /\ sessions[s].pc = "remove_bookmark:111"
    /\ LET paper_id == sessions[s].arg
           kept == SelectSeq(sessions[s].bookmarks,
                             LAMBDA b : get(b, "id") # paper_id)
       IN  bookmarks_json' = save_bookmarks(kept)
    /\ sessions' = [sessions EXCEPT ![s].pc = "remove_bookmark:114"]
    /\ UNCHANGED <<literature, metadata_json, summaries_json,
                   recommendations_json, OPENAI_API_KEY, last, source,
                   search_query, results, recommender_reply>>

\* remove_bookmark, app.py:114: metadata = load_metadata()
remove_bookmark_114(s) ==
    /\ sessions[s].pc = "remove_bookmark:114"
    /\ sessions' = [sessions EXCEPT ![s].pc = "remove_bookmark:115",
                                    ![s].metadata =
                                        load_metadata(metadata_json)]
    /\ UNCHANGED <<literature, bookmarks_json, metadata_json, summaries_json,
                   recommendations_json, OPENAI_API_KEY, last, source,
                   search_query, results, recommender_reply>>

\* remove_bookmark, app.py:115-117: the del and save_metadata
remove_bookmark_115(s) ==
    /\ sessions[s].pc = "remove_bookmark:115"
    /\ LET paper_id == sessions[s].arg
           metadata == sessions[s].metadata
       IN  /\ IF str(paper_id) \in DOMAIN metadata
              THEN metadata_json' =
                       save_metadata(del(metadata, str(paper_id)))
              ELSE metadata_json' = metadata_json
           /\ Return(s, Call("remove_bookmark", paper_id, None, "none",
                             FALSE))
    /\ UNCHANGED <<literature, bookmarks_json, summaries_json,
                   recommendations_json, OPENAI_API_KEY, source, search_query,
                   results, recommender_reply>>

\* "Save Tags & Comments", app.py:741: metadata = load_metadata(), with the
\* entry the form of bookmark i holds at that time
save_metadata_741(s, i, tags_input, choice, new_comments) ==
    LET bookmarks == load_bookmarks(bookmarks_json)
    IN  /\ sessions[s].pc = "idle"
        /\ i \in 1..Len(bookmarks)
        /\ LET item == bookmarks[i]
               stored == get_bookmark_metadata(get(item, "id"))
               selected_tags == parse_tags(tags_input)
               tag_colors == pick_colors(stored.tag_colors, selected_tags,
                                         choice)
               entry == [tags |-> selected_tags, comments |-> new_comments,
                         tag_colors |-> tag_colors]
           IN  /\ ~DuplicateWidgetID(selected_tags)
               /\ sessions' = [sessions EXCEPT ![s] =
                                  InCall("save_metadata:742", get(item, "id"),
                                         <<>>, load_metadata(metadata_json),
                                         <<entry>>, sessions[s].done)]
        /\ UNCHANGED <<literature, bookmarks_json, metadata_json,
                       summaries_json, recommendations_json, OPENAI_API_KEY,
                       last, source, search_query, results,
                       recommender_reply>>

\* "Save Tags & Comments", app.py:742-747: the assignment and save_metadata
save_metadata_742(s) ==
    /\ sessions[s].pc = "save_metadata:742"
    /\ LET entry == sessions[s].entry[1]
       IN  /\ metadata_json' =
                  save_metadata(setitem(sessions[s].metadata,
                                        str(sessions[s].arg), entry))
           /\ Return(s, Call("save_metadata", sessions[s].arg, entry, "none",
                             FALSE))
    /\ UNCHANGED <<literature, bookmarks_json, summaries_json,
                   recommendations_json, OPENAI_API_KEY, source, search_query,
                   results, recommender_reply>>

\* the papers and the form input of these specifications
SessionPapers == {StoreCorpus[n] : n \in 1..Len(StoreCorpus)}

SessionPaperIds == {get(paper, "id") : paper \in SessionPapers}

EnterAddBookmark ==
    \E s \in Sessions, paper \in SessionPapers : add_bookmark_100(s, paper)

LeaveAddBookmark == \E s \in Sessions : add_bookmark_102(s)

EnterRemoveBookmark ==
    \E s \in Sessions, paper_id \in SessionPaperIds :
        remove_bookmark_110(s, paper_id)

RemoveBookmarkWriteBookmarks == \E s \in Sessions : remove_bookmark_111(s)

RemoveBookmarkReadMetadata == \E s \in Sessions : remove_bookmark_114(s)

LeaveRemoveBookmark == \E s \in Sessions : remove_bookmark_115(s)

EnterSaveMetadata ==
    \E s \in Sessions :
        \E i \in 1..Len(load_bookmarks(bookmarks_json)) :
            save_metadata_741(s, i, <<"x">>, [tag \in {<<"x">>} |-> "default"],
                              "note")

LeaveSaveMetadata == \E s \in Sessions : save_metadata_742(s)

\* two sessions on a fresh installation that add bookmarks and save tags;
\* no bookmark is removed
InitSessions == InitFresh

NextSessions ==
    \/ EnterAddBookmark
    \/ LeaveAddBookmark
    \/ EnterSaveMetadata
    \/ LeaveSaveMetadata

SpecSessions == InitSessions /\ [][NextSessions]_vars

\* C19: every write of a session replaces the whole file by what the session
\* computed from the copy it read when it entered the function, whatever the
\* file holds by then; so a bookmark another session added in between is
\* erased (the witness is such a run: both add_bookmark calls returned True,
\* nothing was removed, and one of the two bookmarks is not in the file).
WritesFromSnapshot ==
    [][\A s \in Sessions :
           /\ ( /\ sessions[s].pc = "add_bookmark:102"
                /\ sessions'[s].pc = "idle"
                /\ sessions'[s].done.ret)
              => load_bookmarks(bookmarks_json')
                     = Append(sessions[s].bookmarks, sessions[s].arg)
           /\ ( /\ sessions[s].pc = "save_metadata:742"
                /\ sessions'[s].pc = "idle")
              => load_metadata(metadata_json')
                     = setitem(sessions[s].metadata, str(sessions[s].arg),
                               sessions[s].entry[1])]_vars

\* C19 (witness): each session completed one add_bookmark that returned
\* True, for different papers, and the first session's paper is not
\* bookmarked
LostBookmark ==
    /\ \A s \in Sessions :
           /\ sessions[s].pc = "idle"
           /\ sessions[s].done.op = "add_bookmark"
           /\ sessions[s].done.arg = StoreCorpus[s]
           /\ sessions[s].done.ret
    /\ ~is_bookmarked(get(StoreCorpus[1], "id"))
    /\ is_bookmarked(get(StoreCorpus[2], "id"))

----------------------------------------------------------------------------
(* One session whose process may stop between two lines *)

\* the process stops while the session is inside a function; after the
\* restart the session is in no function and the files are as they were
\* left.  The call record keeps the line the session was at.
Crash ==
    \E s \in Sessions :
        /\ sessions[s].pc \notin {"idle", "closed"}
        /\ Return(s, Call("crash", sessions[s].arg, <<sessions[s].pc>>,
                          "none", FALSE))
        /\ UNCHANGED <<literature, bookmarks_json, metadata_json,
                       summaries_json, recommendations_json, OPENAI_API_KEY,
                       source, search_query, results, recommender_reply>>

\* a fresh installation with one session: the second one is never opened
InitCrash ==
    /\ literature = StoreCorpus
    /\ bookmarks_json = BookmarksFile("missing", <<>>)
    /\ metadata_json = MissingFile
    /\ summaries_json = MissingFile
    /\ recommendations_json = MissingFile
    /\ OPENAI_API_KEY = FALSE
    /\ last = NoCall
    /\ source = SourceFile("missing", <<>>)
    /\ search_query = <<>>
    /\ results = None
    /\ recommender_reply = <<>>
    /\ sessions = [NoSessions EXCEPT ![2].pc = "closed"]

NextCrash ==
    \/ EnterAddBookmark
    \/ LeaveAddBookmark
    \/ EnterRemoveBookmark
    \/ RemoveBookmarkWriteBookmarks
    \/ RemoveBookmarkReadMetadata
    \/ LeaveRemoveBookmark
    \/ EnterSaveMetadata
    \/ LeaveSaveMetadata
    \/ Crash

SpecCrash == InitCrash /\ [][NextCrash]_vars

\* C20: remove_bookmark writes the bookmark file first and the metadata file
\* second: while it is between the two writes the id is no longer bookmarked
\* and the metadata file is as it was; and a key leaves the metadata file
\* only in the last step of a remove_bookmark of that id, so an entry a
\* stop between the two writes has left behind stays until then.
RemoveWritesBookmarksFirst ==
    /\ [](\A s \in Sessions :
              sessions[s].pc \in {"remove_bookmark:114", "remove_bookmark:115"}
              => ~is_bookmarked(sessions[s].arg))
    /\ [][\A s \in Sessions :
              ( /\ sessions[s].pc = "remove_bookmark:111"
                /\ sessions'[s].pc = "remove_bookmark:114")
              => metadata_json' = metadata_json]_vars
    /\ [][\A k \in DOMAIN load_metadata(metadata_json) :
              k \notin DOMAIN load_metadata(metadata_json')
              => \E s \in Sessions :
                     /\ sessions[s].pc = "remove_bookmark:115"
                     /\ str(sessions[s].arg) = k
                     /\ sessions'[s].done.op = "remove_bookmark"]_vars

\* C20 (witness): the process stopped inside remove_bookmark of paper 1
\* after the bookmark file was written; paper 1 is not bookmarked and its
\* metadata entry is still in the file
OrphanAfterCrash ==
    /\ sessions[1].pc = "idle"
    /\ sessions[1].done.op = "crash"
    /\ sessions[1].done.ret = <<"remove_bookmark:114">>
    /\ sessions[1].done.arg = <<1>>
    /\ ~is_bookmarked(<<1>>)
    /\ "1" \in DOMAIN load_metadata(metadata_json)

----------------------------------------------------------------------------
(* More claims about the Search tab *)

\* C21: after a run of the Search tab with a query that is empty after
\* trimming (empty, or whitespace only), no result list is drawn: the corpus
\* was not searched.
BlankQueryNotSearched ==
    (last.op = "search" /\ strip(search_query) = <<>>) => results = None

----------------------------------------------------------------------------
(* More claims about the recommendation parser *)

\* the number of digits a line begins with
RECURSIVE leading_digits(_)
leading_digits(line) ==
    IF line # <<>> /\ isdigit(Head(line)) THEN 1 + leading_digits(Tail(line))
    ELSE 0

\* the line without a leading "<digits>. ", and the line itself when it has
\* no such prefix
without_ordinal(line) ==
    LET n == leading_digits(line)
    IN  IF n > 0 /\ Len(line) >= n + 2 /\ SubSeq(line, n + 1, n + 2) = <<".", " ">>
        THEN SubSeq(line, n + 3, Len(line))
        ELSE line

\* C22: for every line of a reply the recommender gave, the content the
\* parser goes on with is the trimmed line without its leading "<digits>. "
\* prefix, and the whole trimmed line when it does not begin with such a
\* prefix (as "3D. A - r", which begins with a digit).
OrdinalPrefixOnly ==
    RecommenderAnswered
    => LET lines == split_char(strip(recommender_reply), "\n", <<>>)
       IN  \A n \in 1..Len(lines) :
               ordinal_stripped(lines[n])
                   = strip(without_ordinal(strip(lines[n])))

----------------------------------------------------------------------------
(* Bookmarks while the corpus changes: app.py:50-106, 367, 496-498 *)

\* the Bookmark button of a paper of the corpus: add_bookmark(item)
AddBookmarkOfCorpus ==
    \E n \in 1..Len(literature) : add_bookmark(literature[n])

\* the user edits the corpus file: records are changed, added or taken out
EditSource ==
    /\ source' \in {SourceFile("list", items) :
                       items \in BoundedSeq({[title |-> <<"a">>],
                                             [title |-> <<"b">>]},
                                            MaxSourceLen)}
    /\ last' = Call("replace_source", None, None, "none", FALSE)
    /\ UNCHANGED <<literature, bookmarks_json, metadata_json, summaries_json,
                   recommendations_json, OPENAI_API_KEY, search_query,
                   results, recommender_reply, sessions>>

InitFrozen ==
    /\ literature = <<>>
    /\ bookmarks_json = BookmarksFile("missing", <<>>)
    /\ metadata_json = MissingFile
    /\ summaries_json = MissingFile
    /\ recommendations_json = MissingFile
    /\ OPENAI_API_KEY = FALSE
    /\ last = NoCall
    /\ source = SourceFile("list", <<>>)
    /\ search_query = <<>>
    /\ results = None
    /\ recommender_reply = <<>>
    /\ sessions = NoSessions

NextFrozen ==
    \/ AddBookmarkOfCorpus
    \/ EditSource
    \/ LoadLiterature

SpecFrozen == InitFrozen /\ [][NextFrozen]_vars

\* C23: a successful add_bookmark(p) stores p as it is then, and no edit of
\* the corpus file and no reload of the corpus changes a stored bookmark:
\* every bookmark keeps its place and its fields.
BookmarkFrozen ==
    /\ []((last.op = "add_bookmark" /\ last.ret)
          => LET bookmarks == load_bookmarks(bookmarks_json)
             IN  bookmarks[Len(bookmarks)] = last.arg)
    /\ [][LET before == load_bookmarks(bookmarks_json)
              after  == load_bookmarks(bookmarks_json')
          IN  /\ Len(after) >= Len(before)
              /\ \A n \in 1..Len(before) : after[n] = before[n]]_vars

\* C23 (witness): the corpus was reloaded after an edit; the paper with id 1
\* now has another title than the bookmark with id 1, and no paper of the
\* corpus has the id of the second bookmark
BookmarkOutlivesEdit ==
    /\ last.op = "load_literature"
    /\ LET bookmarks == load_bookmarks(bookmarks_json)
       IN  /\ Len(bookmarks) = 2
           /\ Len(literature) = 1
           /\ bookmarks[1].id = literature[1].id
           /\ bookmarks[1].title # literature[1].title
           /\ bookmarks[2].id # literature[1].id

----------------------------------------------------------------------------
(* More claims about the bookmark store *)

\* C24: a successful add_bookmark(p) makes the bookmark list the former list
\* with p appended, a refused one leaves it as it was, and
\* remove_bookmark(id) makes it the former list without the bookmarks that
\* have the id, the others in their former order; no other operation
\* changes the list.
BookmarksInAddOrder ==
    [][LET before == load_bookmarks(bookmarks_json)
           after  == load_bookmarks(bookmarks_json')
       IN  IF last'.op = "add_bookmark"
           THEN IF last'.ret THEN after = Append(before, last'.arg)
                ELSE after = before
           ELSE IF last'.op = "remove_bookmark"
           THEN after = SelectSeq(before,
                                  LAMBDA b : get(b, "id") # last'.arg)
           ELSE after = before]_vars

\* C24 (witness): in a session that began without bookmarks, the paper with
\* id 1 was added when the paper with id 2 was already stored, and stands
\* last
LaterAddStandsLast ==
    /\ last.op = "add_bookmark"
    /\ last.ret
    /\ LET bookmarks == load_bookmarks(bookmarks_json)
       IN  /\ Len(bookmarks) = 2
           /\ bookmarks[1].id = 2
           /\ bookmarks[2] = last.arg
           /\ bookmarks[2].id = 1

----------------------------------------------------------------------------
(* Bookmarks tab, the run that follows an entry in the tag box:
   app.py:680-727, 1141-1190 *)

\* the form of bookmark i once tags_input is entered: the parsed
\* selected_tags that Save would store, and DuplicateWidgetID when two colour
\* selectboxes of the run get the same key (then no Save button is drawn)
tags_form(tags_input) ==
    LET selected_tags == parse_tags(tags_input)
    IN  [selected_tags |-> selected_tags,
         raised |-> IF DuplicateWidgetID(selected_tags)
                    THEN raised("DuplicateWidgetID") ELSE None]

EnterTags ==
    \E i \in 1..Len(load_bookmarks(bookmarks_json)) :
        \E tags_input \in TagsTabInputs :
            /\ last' = Call("tags_input", tags_input, tags_form(tags_input),
                            "none", FALSE)
            /\ UNCHANGED <<literature, bookmarks_json, metadata_json,
                           summaries_json, recommendations_json,
                           OPENAI_API_KEY, source, search_query, results,
                           recommender_reply, sessions>>

NextTagsForm ==
    \/ EnterTags
    \/ SaveTagsAndCommentsOfTab

SpecTagsForm == InitTags /\ [][NextTagsForm]_vars

\* C25: for every text entered in the tag box, the form is drawn with its
\* Save button and the tag list it would store has no tag twice and no
\* empty tag; and every stored tag list is one without repeats or empty tags.
TagsDeduplicatedByParsing ==
    /\ last.op = "tags_input"
       => /\ last.ret.raised = None
          /\ ~DuplicateWidgetID(last.ret.selected_tags)
          /\ \A n \in 1..Len(last.ret.selected_tags) :
                 strip(last.ret.selected_tags[n]) # <<>>
    /\ last.op = "save_metadata"
       => /\ ~DuplicateWidgetID(last.ret.tags)
          /\ \A n \in 1..Len(last.ret.tags) : strip(last.ret.tags[n]) # <<>>

----------------------------------------------------------------------------
(* Two sessions that add and remove bookmarks at the same time *)

\* the sessions find a bookmark file without duplicate ids and no metadata
InitRace == InitClean /\ metadata_json = MissingFile

NextRace ==
    \/ EnterAddBookmark
    \/ LeaveAddBookmark
    \/ EnterRemoveBookmark
    \/ RemoveBookmarkWriteBookmarks
    \/ RemoveBookmarkReadMetadata
    \/ LeaveRemoveBookmark

SpecRace == InitRace /\ [][NextRace]_vars

\* C26: whatever the interleaving of the load and save steps of the two
\* sessions' add_bookmark and remove_bookmark calls, the bookmark file never
\* holds two bookmarks with the same id.
NoDuplicateIdsInRace == NoDuplicateIds(load_bookmarks(bookmarks_json))

\* C26 (witness): session 2 has added paper 1 while session 1 was inside
\* add_bookmark of the same paper with a copy of the file that lacks it
StaleCopyBeforeWrite ==
    /\ sessions[1].pc = "add_bookmark:102"
    /\ sessions[1].arg = StoreCorpus[1]
    /\ ~any_id(sessions[1].bookmarks, get(StoreCorpus[1], "id"))
    /\ sessions[2].pc = "idle"
    /\ sessions[2].done.op = "add_bookmark"
    /\ sessions[2].done.arg = StoreCorpus[1]
    /\ sessions[2].done.ret
    /\ is_bookmarked(get(StoreCorpus[1], "id"))

----------------------------------------------------------------------------
(* Search and surrounding spaces *)

\* C27 (as claimed): for every query with a non-empty trimmed form, the
\* result list is the one the trimmed query gives.
SearchIgnoresSurroundingSpaces ==
    (last.op = "search" /\ results # None /\ strip(search_query) # <<>>)
        => results = <<search(literature, strip(search_query))>>

\* C27: for every query whose trimmed form parses as an integer, the result
\* list is the one the trimmed query gives.
IdSearchIgnoresSurroundingSpaces ==
    ( /\ last.op = "search"
      /\ results # None
      /\ int(strip(search_query)) # None)
        => results = <<search(literature, strip(search_query))>>

\* C27 (witness): the query " 1 " was searched and found the papers with
\* id 1
SpacedIdFound ==
    /\ last.op = "search"
    /\ search_query = <<" ", "1", " ">>
    /\ results # None
    /\ results[1] # <<>>
    /\ \A n \in 1..Len(results[1]) : get(results[1][n], "id") = <<1>>

----------------------------------------------------------------------------
(* The widget keys of the citation buttons *)

\* C29: in one call of display_citation_links a button is drawn for every
\* position of the cites list and of the cited_by list, and the keys of the
\* buttons are pairwise distinct, also when a list holds an id twice.
CitationKeysDistinct ==
    last.op = "display_citation_links"
    => LET buttons == last.ret.cites \o last.ret.cited_by
       IN  /\ Len(buttons) = Len(last.arg.cites) + Len(last.arg.cited_by)
           /\ \A m, n \in 1..Len(buttons) :
                  m # n => buttons[m].key # buttons[n].key

----------------------------------------------------------------------------
(* The colours stored by "Save Tags & Comments" *)

\* C28: the entry that "Save Tags & Comments" stores holds a colour only for
\* tags of its tag list.
StoredColoursAreOfStoredTags ==
    last.op = "save_metadata"
    => LET entry == load_metadata(metadata_json)[str(last.arg)]
       IN  DOMAIN entry.tag_colors \subseteq TagSet(entry.tags)

----------------------------------------------------------------------------
(* The four files together: bookmarks, metadata and the two caches *)

\* "Save Tags & Comments" of bookmark i with the tag x and a note
SaveOneTag ==
    \E i \in 1..Len(load_bookmarks(bookmarks_json)) :
        save_tags_and_comments(i, <<"x">>, [tag \in {<<"x">>} |-> "default"],
                               "note")

\* a fresh installation with an API key
InitFour == Init /\ OPENAI_API_KEY

NextFour ==
    \/ AddBookmarkOfCorpus
    \/ RemoveBookmark
    \/ SaveOneTag
    \/ GetAiSummary
    \/ GetSimilarPapers

SpecFour == InitFour /\ [][NextFour]_vars

\* C30: add_bookmark, remove_bookmark and "Save Tags & Comments" leave the
\* summary cache and the recommendation cache as they were; get_ai_summary
\* leaves the recommendation cache, the bookmark file and the metadata file
\* as they were; get_similar_papers leaves the summary cache, the bookmark
\* file and the metadata file as they were.
StoresIndependent ==
    [][/\ last'.op \in {"add_bookmark", "remove_bookmark", "save_metadata"}
          => /\ summaries_json' = summaries_json
             /\ recommendations_json' = recommendations_json
       /\ last'.op = "get_ai_summary"
          => /\ recommendations_json' = recommendations_json
             /\ bookmarks_json' = bookmarks_json
             /\ metadata_json' = metadata_json
       /\ last'.op = "get_similar_papers"
          => /\ summaries_json' = summaries_json
             /\ bookmarks_json' = bookmarks_json
             /\ metadata_json' = metadata_json]_vars

\* C30 (witness): paper 1 was un-bookmarked, its summary and its
\* recommendations are cached, and paper 2 is bookmarked with tags
SummaryOutlivesBookmark ==
    /\ last.op = "remove_bookmark"
    /\ last.arg = <<1>>
    /\ ~is_bookmarked(<<1>>)
    /\ "1" \in DOMAIN load_summaries_cache(summaries_json)
    /\ "1" \in DOMAIN load_recommendations_cache(recommendations_json)
    /\ is_bookmarked(<<2>>)
    /\ "2" \in DOMAIN load_metadata(metadata_json)

====

















